---- MODULE Spec2Model ----
(***************************************************************************)
(* Model of the OLE/MIME email file parser of js/msgreader.js.             *)
(*                                                                         *)
(* Encodings used throughout:                                              *)
(*  - a JavaScript string is a sequence of UTF-16 code units (integers);   *)
(*    JS positions are 0-based, so position i is element i+1;              *)
(*  - a byte buffer is a sequence of integers 0..255;                      *)
(*  - an unsigned 32-bit value v >= 2^31 is written v - 2^32 (TLC's        *)
(*    integers are 32 bits wide), so 0xFFFFFFFE is -2 and 0xFFFFFFFF is -1; *)
(*  - a value of the decoder is a record [k, s, n]: k is the JS kind,      *)
(*    s the string/bytes payload, n the numeric payload;                   *)
(*  - a call that throws yields a record with ok = FALSE.                  *)
(***************************************************************************)
EXTENDS Integers, Sequences, FiniteSets, TLC

(* ------------------------------------------------------------------ *)
(* Program constants (msgreader.js:9-31)                               *)
(* ------------------------------------------------------------------ *)
PROP_TYPE_INTEGER32 == 3
PROP_TYPE_BOOLEAN == 11
PROP_TYPE_STRING == 30
PROP_TYPE_STRING8 == 31
PROP_TYPE_TIME == 64
PROP_TYPE_BINARY == 258

PROP_ID_SUBJECT == 55
PROP_ID_BODY == 4096
PROP_ID_HTML_BODY == 4115
PROP_ID_DISPLAY_TO == 3588
PROP_ID_DISPLAY_CC == 3587

PROP_ID_RECIPIENT_TYPE == 3093
PROP_ID_RECIPIENT_DISPLAY_NAME == 12289
PROP_ID_RECIPIENT_EMAIL_ADDRESS == 12291
PROP_ID_RECIPIENT_SMTP_ADDRESS == 14846

RECIPIENT_TYPE_TO == 1
RECIPIENT_TYPE_CC == 2
RECIPIENT_TYPE_BCC == 3

\* 0xFFFFFFFE and 0xFFFFFFFF in the 32-bit encoding described above
ENDOFCHAIN == -2
FREESECT == -1

HEADER_SIZE == 512
MINI_STREAM_CUTOFF == 4096
DIR_ENTRY_SIZE == 128

(* ------------------------------------------------------------------ *)
(* Values of the decoder                                               *)
(* ------------------------------------------------------------------ *)
Null == [k |-> "null", s |-> <<>>, n |-> 0]
Str(s) == [k |-> "str", s |-> s, n |-> 0]
Bytes(b) == [k |-> "bytes", s |-> b, n |-> 0]
Num(n) == [k |-> "num", s |-> <<>>, n |-> n]
Bool(b) == [k |-> "bool", s |-> <<>>, n |-> IF b THEN 1 ELSE 0]
Date(low, high) == [k |-> "date", s |-> <<low, high>>, n |-> 0]

\* JavaScript truthiness of a value
Truthy(v) ==
    CASE v.k = "null" -> FALSE
      [] v.k = "str" -> Len(v.s) > 0
      [] v.k = "num" -> v.n # 0
      [] v.k = "bool" -> v.n = 1
      [] OTHER -> TRUE

(* ------------------------------------------------------------------ *)
(* String helpers with JavaScript semantics                            *)
(* ------------------------------------------------------------------ *)
Min(a, b) == IF a < b THEN a ELSE b
Max(a, b) == IF a > b THEN a ELSE b
Clamp(i, n) == IF i < 0 THEN 0 ELSE IF i > n THEN n ELSE i
MaxOf(S) == CHOOSE x \in S : \A y \in S : y <= x
MinOf(S) == CHOOSE x \in S : \A y \in S : x <= y

\* String.prototype.substring(a, b): clamps both and swaps when a > b
Substring(s, a, b) ==
    SubSeq(s, Min(Clamp(a, Len(s)), Clamp(b, Len(s))) + 1, Max(Clamp(a, Len(s)), Clamp(b, Len(s))))

SubstringFrom(s, a) == Substring(s, a, Len(s))

\* needle occurs in hay at 0-based position i
MatchesAt(hay, needle, i) ==
    /\ i >= 0
    /\ i + Len(needle) <= Len(hay)
    /\ \A j \in 1..Len(needle) : hay[i + j] = needle[j]

\* String.prototype.indexOf(needle, from): first position >= from, or -1
MinOrMinusOne(hits) == IF hits = {} THEN -1 ELSE CHOOSE i \in hits : \A j \in hits : i <= j

IndexOfFrom(hay, needle, from) ==
    MinOrMinusOne({i \in Clamp(from, Len(hay))..(Len(hay) - Len(needle)) :
                      MatchesAt(hay, needle, i)})

IndexOf(hay, needle) == IndexOfFrom(hay, needle, 0)

\* White space of String.prototype.trim and of the regexp class \s
IsWhiteSpace(c) ==
    c \in {9, 10, 11, 12, 13, 32, 160, 5760, 8232, 8233, 8239, 8287, 12288, 65279}
        \cup (8192..8202)

RECURSIVE TrimStart(_)
TrimStart(s) ==
    IF s # <<>> /\ IsWhiteSpace(Head(s)) THEN TrimStart(Tail(s)) ELSE s

RECURSIVE TrimEnd(_)
TrimEnd(s) ==
    IF s # <<>> /\ IsWhiteSpace(s[Len(s)]) THEN TrimEnd(SubSeq(s, 1, Len(s) - 1)) ELSE s

Trim(s) == TrimEnd(TrimStart(s))

\* ASCII lower-casing (String.prototype.toLowerCase on the code units modelled)
LowerChar(c) == IF c >= 65 /\ c <= 90 THEN c + 32 ELSE c
ToLowerCase(s) == [i \in 1..Len(s) |-> LowerChar(s[i])]

\* the lower-case pattern pat matches text at 0-based p under the i flag
MatchesAtCI(text, pat, p) ==
    /\ p >= 0
    /\ p + Len(pat) <= Len(text)
    /\ \A j \in 1..Len(pat) : LowerChar(text[p + j]) = pat[j]

LetterChars == (97..122) \cup (65..90)
DigitChars == 48..57

\* number of leading elements of s that are in S
RECURSIVE RunIn(_, _)
RunIn(S, s) == IF s # <<>> /\ Head(s) \in S THEN 1 + RunIn(S, Tail(s)) ELSE 0

\* number of leading elements of s that are not in S
RECURSIVE RunNotIn(_, _)
RunNotIn(S, s) == IF s # <<>> /\ Head(s) \notin S THEN 1 + RunNotIn(S, Tail(s)) ELSE 0

CR == 13
LF == 10

(* ------------------------------------------------------------------ *)
(* _normalizeText (msgreader.js:125-132)                               *)
(* ------------------------------------------------------------------ *)
\* .replace(/\r\n/g, '\n')
RECURSIVE ReplaceCRLF(_)
ReplaceCRLF(s) ==
    IF s = <<>> THEN <<>>
    ELSE IF Len(s) >= 2 /\ s[1] = CR /\ s[2] = LF
         THEN <<LF>> \o ReplaceCRLF(SubSeq(s, 3, Len(s)))
         ELSE <<s[1]>> \o ReplaceCRLF(Tail(s))

\* .replace(/\r/g, '\n')
ReplaceCR(s) == [i \in 1..Len(s) |-> IF s[i] = CR THEN LF ELSE s[i]]

\* length of the run of newlines that starts s
RECURSIVE NewlineRun(_)
NewlineRun(s) ==
    IF s # <<>> /\ Head(s) = LF THEN 1 + NewlineRun(Tail(s)) ELSE 0

\* .replace(/\n{3,}/g, '\n\n')
RECURSIVE CollapseNewlines(_)
CollapseNewlines(s) ==
    IF s = <<>> THEN <<>>
    ELSE IF Head(s) # LF THEN <<Head(s)>> \o CollapseNewlines(Tail(s))
    ELSE (IF NewlineRun(s) >= 3 THEN <<LF, LF>> ELSE SubSeq(s, 1, NewlineRun(s)))
            \o CollapseNewlines(SubSeq(s, NewlineRun(s) + 1, Len(s)))

\* the variant a missing .trim() would give
NormalizeText_NoTrim(text) ==
    IF text = <<>> THEN <<>>
    ELSE CollapseNewlines(ReplaceCR(ReplaceCRLF(text)))

NormalizeText(text) ==
    IF text = <<>> THEN <<>>
    ELSE Trim(CollapseNewlines(ReplaceCR(ReplaceCRLF(text))))

(* ------------------------------------------------------------------ *)
(* Text decoders used by dataViewToString (msgreader.js:134-176)       *)
(* ------------------------------------------------------------------ *)
IsCont(b) == b >= 128 /\ b <= 191

\* the two code units of a supplementary code point cp + 0x10000
SurrogatePair(cp) == <<4, <<55296 + (cp \div 1024), 56320 + (cp % 1024)>>>>

\* One step of the WHATWG UTF-8 decoder at the head of bytes b:
\* <<number of bytes consumed, code units produced>>, or <<0, <<>>>> when malformed.
Utf8Step(b) ==
    IF b[1] < 128 THEN <<1, <<b[1]>>>>
    ELSE IF b[1] >= 194 /\ b[1] <= 223 /\ Len(b) >= 2 /\ IsCont(b[2])
         THEN <<2, <<(b[1] - 192) * 64 + (b[2] - 128)>>>>
    ELSE IF b[1] >= 224 /\ b[1] <= 239 /\ Len(b) >= 3 /\ IsCont(b[2]) /\ IsCont(b[3])
            /\ (b[1] = 224 => b[2] >= 160) /\ (b[1] = 237 => b[2] <= 159)
         THEN <<3, <<(b[1] - 224) * 4096 + (b[2] - 128) * 64 + (b[3] - 128)>>>>
    ELSE IF b[1] >= 240 /\ b[1] <= 244 /\ Len(b) >= 4 /\ IsCont(b[2]) /\ IsCont(b[3])
            /\ IsCont(b[4]) /\ (b[1] = 240 => b[2] >= 144) /\ (b[1] = 244 => b[2] <= 143)
         THEN SurrogatePair((b[1] - 240) * 262144 + (b[2] - 128) * 4096
                              + (b[3] - 128) * 64 + (b[4] - 128) - 65536)
    ELSE <<0, <<>>>>

\* new TextDecoder('utf-8', {fatal: true}).decode: ok = FALSE when it throws
RECURSIVE Utf8Fatal(_)
Utf8FatalJoin(units, rest) ==
    [ok |-> rest.ok, s |-> IF rest.ok THEN units \o rest.s ELSE <<>>]

Utf8FatalNext(st, b) ==
    IF st[1] = 0 THEN [ok |-> FALSE, s |-> <<>>]
    ELSE Utf8FatalJoin(st[2], Utf8Fatal(SubSeq(b, st[1] + 1, Len(b))))

Utf8Fatal(b) ==
    IF b = <<>> THEN [ok |-> TRUE, s |-> <<>>] ELSE Utf8FatalNext(Utf8Step(b), b)

\* the bytes of a malformed sequence at the head of b that one U+FFFD replaces:
\* the longest prefix that could still begin a well-formed sequence
MalformedLen(b) ==
    IF b[1] >= 224 /\ b[1] <= 239 /\ Len(b) >= 2 /\ IsCont(b[2])
       /\ (b[1] = 224 => b[2] >= 160) /\ (b[1] = 237 => b[2] <= 159)
    THEN 2
    ELSE IF b[1] >= 240 /\ b[1] <= 244 /\ Len(b) >= 2 /\ IsCont(b[2])
            /\ (b[1] = 240 => b[2] >= 144) /\ (b[1] = 244 => b[2] <= 143)
    THEN IF Len(b) >= 3 /\ IsCont(b[3]) THEN 3 ELSE 2
    ELSE 1

\* new TextDecoder('utf-8', {fatal: false}).decode, character by character
RECURSIVE Utf8LossyChars(_)
Utf8LossyNext(st, b) ==
    IF st[1] = 0 THEN <<65533>> \o Utf8LossyChars(SubSeq(b, MalformedLen(b) + 1, Len(b)))
    ELSE st[2] \o Utf8LossyChars(SubSeq(b, st[1] + 1, Len(b)))

Utf8LossyChars(b) == IF b = <<>> THEN <<>> ELSE Utf8LossyNext(Utf8Step(b), b)

\* The same decoder on a long buffer: an ASCII byte always starts a character,
\* so the text of b is the text before such a byte followed by the text from it.
RECURSIVE Utf8Lossy(_)
Utf8LossySplit(b, cuts) ==
    IF cuts = {} THEN Utf8LossyChars(b)
    ELSE Utf8Lossy(SubSeq(b, 1, MinOf(cuts) - 1)) \o Utf8Lossy(SubSeq(b, MinOf(cuts), Len(b)))

Utf8Lossy(b) ==
    IF Len(b) <= 32 THEN Utf8LossyChars(b)
    ELSE Utf8LossySplit(b, {i \in (Len(b) \div 2)..Len(b) : b[i] < 128})

\* the decoders drop a leading byte-order mark
StripBom8(b) ==
    IF Len(b) >= 3 /\ b[1] = 239 /\ b[2] = 187 /\ b[3] = 191 THEN SubSeq(b, 4, Len(b)) ELSE b

StripBom16(b) ==
    IF Len(b) >= 2 /\ b[1] = 255 /\ b[2] = 254 THEN SubSeq(b, 3, Len(b)) ELSE b

IsHighSurrogate(u) == u >= 55296 /\ u <= 56319
IsLowSurrogate(u) == u >= 56320 /\ u <= 57343

\* new TextDecoder('utf-16le', {fatal: false}).decode after the BOM
RECURSIVE Utf16Units(_)
Utf16Next(u, rest) ==
    IF IsHighSurrogate(u)
    THEN IF Len(rest) >= 2 /\ IsLowSurrogate(rest[1] + 256 * rest[2])
         THEN <<u, rest[1] + 256 * rest[2]>> \o Utf16Units(SubSeq(rest, 3, Len(rest)))
         ELSE <<65533>> \o Utf16Units(rest)
    ELSE IF IsLowSurrogate(u) THEN <<65533>> \o Utf16Units(rest)
    ELSE <<u>> \o Utf16Units(rest)

Utf16Units(b) ==
    IF b = <<>> THEN <<>>
    ELSE IF Len(b) = 1 THEN <<65533>>
    ELSE Utf16Next(b[1] + 256 * b[2], SubSeq(b, 3, Len(b)))

Utf16Decode(b) == Utf16Units(StripBom16(b))

\* windows-1252 index of the WHATWG encoding standard for the bytes 0x80..0x9F
Win1252High ==
    <<8364, 129, 8218, 402, 8222, 8230, 8224, 8225, 710, 8240, 352, 8249, 338, 141, 381, 143,
      144, 8216, 8217, 8220, 8221, 8226, 8211, 8212, 732, 8482, 353, 8250, 339, 157, 382, 376>>

Win1252Decode(b) ==
    [i \in 1..Len(b) |-> IF b[i] >= 128 /\ b[i] <= 159 THEN Win1252High[b[i] - 127] ELSE b[i]]

\* decoded.substring(0, decoded.indexOf('\0')) when a NUL is present
CutAt(s, nullIdx) == IF nullIdx # -1 THEN Substring(s, 0, nullIdx) ELSE s
CutAtNul(s) == CutAt(s, IndexOf(s, <<0>>))

\* lines 136-143: the strict decode, or on its failure the windows-1252 branch
Utf8OrFallback(d, view) == IF d.ok THEN CutAtNul(d.s) ELSE CutAtNul(Win1252Decode(view))

\* dataViewToString(view, encoding), encoding one of "utf-8", "utf16le", "ascii"
DataViewToString(view, encoding) ==
    IF encoding = "utf-8" THEN Utf8OrFallback(Utf8Fatal(StripBom8(view)), view)
    ELSE IF encoding = "utf16le" THEN CutAtNul(Utf16Decode(view))
    ELSE CutAtNul(Win1252Decode(view))

(* ------------------------------------------------------------------ *)
(* _stripHtml (msgreader.js:88-120)                                    *)
(* ------------------------------------------------------------------ *)
LT == 60
GT == 62

\* the first 0-based position >= from where the lower-case pat matches text
\* under the i flag, or -1
IndexOfCI(text, pat, from) ==
    MinOrMinusOne({i \in Clamp(from, Len(text))..(Len(text) - Len(pat)) :
                      MatchesAtCI(text, pat, i)})

\* "<head", "</head>", "<style", "</style>", "<script", "</script>", "<!--", "-->", "<?xml"
StrHeadOpen == <<60, 104, 101, 97, 100>>
StrHeadClose == <<60, 47, 104, 101, 97, 100, 62>>
StrStyleOpen == <<60, 115, 116, 121, 108, 101>>
StrStyleClose == <<60, 47, 115, 116, 121, 108, 101, 62>>
StrScriptOpen == <<60, 115, 99, 114, 105, 112, 116>>
StrScriptClose == <<60, 47, 115, 99, 114, 105, 112, 116, 62>>
StrCommentOpen == <<60, 33, 45, 45>>
StrCommentClose == <<45, 45, 62>>
StrXmlOpen == <<60, 63, 120, 109, 108>>

\* .replace(/open[\s\S]*?close/gi, ''): from the leftmost open to the first
\* close after it, again and again; an open without a close stays
RECURSIVE RemoveBlocks(_, _, _)
RemoveBlockAt(text, open, close, start, end) ==
    IF end = -1 THEN text
    ELSE SubSeq(text, 1, start)
            \o RemoveBlocks(SubSeq(text, end + Len(close) + 1, Len(text)), open, close)

RemoveBlockFrom(text, open, close, start) ==
    IF start = -1 THEN text
    ELSE RemoveBlockAt(text, open, close, start, IndexOfCI(text, close, start + Len(open)))

RemoveBlocks(text, open, close) == RemoveBlockFrom(text, open, close, IndexOfCI(text, open, 0))

\* .replace(/<\?xml[^>]*\?>/gi, ''): the first '>' after "<?xml" ends the match
\* when a '?' that is not the one of "<?xml" stands before it
RECURSIVE RemoveXmlDecls(_)
RemoveXmlDeclAt(text, start, gt) ==
    IF gt = -1 THEN text
    ELSE IF gt >= start + 6 /\ text[gt] = 63
    THEN SubSeq(text, 1, start) \o RemoveXmlDecls(SubSeq(text, gt + 2, Len(text)))
    ELSE SubSeq(text, 1, start + 1) \o RemoveXmlDecls(SubSeq(text, start + 2, Len(text)))

RemoveXmlDeclFrom(text, start) ==
    IF start = -1 THEN text
    ELSE RemoveXmlDeclAt(text, start, IndexOfFrom(text, <<GT>>, start + 5))

RemoveXmlDecls(text) == RemoveXmlDeclFrom(text, IndexOfCI(text, StrXmlOpen, 0))

\* lines 91-97
RemoveMarkupBlocks(html) ==
    RemoveXmlDecls(
        RemoveBlocks(
            RemoveBlocks(
                RemoveBlocks(
                    RemoveBlocks(html, StrHeadOpen, StrHeadClose),
                    StrStyleOpen, StrStyleClose),
                StrScriptOpen, StrScriptClose),
            StrCommentOpen, StrCommentClose))

\* number of leading white-space characters of s
RECURSIVE SpaceRun(_)
SpaceRun(s) == IF s # <<>> /\ IsWhiteSpace(Head(s)) THEN 1 + SpaceRun(Tail(s)) ELSE 0

\* [.#a-z0-9_] under the i flag
CssChars == {46, 35, 95} \cup (48..57) \cup (65..90) \cup (97..122)

\* \{[^}]+\} at the 0-based position brace: the position after the match, or -1
CssCloseAt(brace, close) == IF close >= brace + 2 THEN close + 1 ELSE -1

CssClose(text, brace) ==
    IF brace >= Len(text) \/ text[brace + 1] # 123 THEN -1
    ELSE CssCloseAt(brace, IndexOfFrom(text, <<125>>, brace + 1))

\* line 100, .replace(/[.#a-z0-9_]+\s*\{[^}]+\}/gi, ''): a maximal run of
\* selector characters, white space, and a braced block that is not empty
RECURSIVE RemoveCss(_)
RemoveCssRun(text, run, end) ==
    IF end = -1 THEN SubSeq(text, 1, run) \o RemoveCss(SubSeq(text, run + 1, Len(text)))
    ELSE RemoveCss(SubSeq(text, end + 1, Len(text)))

RemoveCssAt(text, run) ==
    RemoveCssRun(text, run, CssClose(text, run + SpaceRun(SubSeq(text, run + 1, Len(text)))))

RemoveCss(text) ==
    IF text = <<>> THEN <<>>
    ELSE IF Head(text) \in CssChars THEN RemoveCssAt(text, RunIn(CssChars, text))
    ELSE <<Head(text)>> \o RemoveCss(Tail(text))

\* br, p, div, tr, li, h1 .. h6
BlockTagNames ==
    {<<98, 114>>, <<112>>, <<100, 105, 118>>, <<116, 114>>, <<108, 105>>,
     <<104, 49>>, <<104, 50>>, <<104, 51>>, <<104, 52>>, <<104, 53>>, <<104, 54>>}

\* <(br|p|...)[^>]*> at the 0-based position lt: the name need not end the
\* tag name (<pre> matches as p), and a '>' must follow
IsBlockTagAt(text, lt) ==
    /\ lt < Len(text)
    /\ text[lt + 1] = LT
    /\ \E name \in BlockTagNames : MatchesAtCI(text, name, lt + 1)
    /\ IndexOfFrom(text, <<GT>>, lt + 1) # -1

\* the position after the tag that closes at gt and the white space behind it
AfterBlockTag(text, gt) == gt + 1 + SpaceRun(SubSeq(text, gt + 2, Len(text)))

\* line 103, .replace(/\s*<(br|p|div|tr|li|h1|h2|h3|h4|h5|h6)[^>]*>\s*/gi, '\n')
RECURSIVE BlockTagsToNewlines(_)
BlockTagAfter(text, ws) ==
    IF IsBlockTagAt(text, ws)
    THEN <<LF>> \o BlockTagsToNewlines(
                      SubSeq(text, AfterBlockTag(text, IndexOfFrom(text, <<GT>>, ws + 1)) + 1,
                             Len(text)))
    ELSE <<Head(text)>> \o BlockTagsToNewlines(Tail(text))

BlockTagsToNewlines(text) ==
    IF text = <<>> THEN <<>> ELSE BlockTagAfter(text, SpaceRun(text))

\* .replace(/<[^>]+>/g, '')
RECURSIVE RemoveTags(_)
RemoveTagAt(s, close) ==
    IF close > 1 THEN RemoveTags(SubSeq(s, close + 2, Len(s)))
    ELSE <<LT>> \o RemoveTags(Tail(s))

RemoveTags(s) ==
    IF s = <<>> THEN <<>>
    ELSE IF Head(s) = LT THEN RemoveTagAt(s, IndexOfFrom(s, <<GT>>, 1))
    ELSE <<Head(s)>> \o RemoveTags(Tail(s))

(* Lines 108-111: doc.body.textContent after the style, script, link, meta and
   title elements are removed, for markup made of comments, start and end
   tags without quoted attribute values, and text without '&' and NUL. Tags
   and comments leave no text; a script, style or title element ends at the
   first "</name" followed by white space, '/' or '>', or at the end of the
   input, and leaves no text either. White space before the first content is
   dropped by the parser and by the trim of _normalizeText alike. *)
TagBreak == {9, 10, 12, 32, 47, 62}
JunkNames ==
    {<<115, 99, 114, 105, 112, 116>>, <<115, 116, 121, 108, 101>>, <<116, 105, 116, 108, 101>>}

\* the text after the first '>', nothing when the input ends inside the tag
AfterGt(text) == SubstringFrom(text, IF IndexOf(text, <<GT>>) = -1 THEN Len(text)
                                     ELSE IndexOf(text, <<GT>>) + 1)

\* the text after the comment that opens text: "<!-->" and "<!--->" are closed
\* comments, else the first "-->" or "--!>" closes it
CommentEnd(body, plain, bang) ==
    IF Len(body) >= 1 /\ body[1] = GT THEN 1
    ELSE IF Len(body) >= 2 /\ body[1] = 45 /\ body[2] = GT THEN 2
    ELSE IF plain = -1 /\ bang = -1 THEN Len(body)
    ELSE IF bang = -1 \/ (plain # -1 /\ plain < bang) THEN plain + 3
    ELSE bang + 4

AfterCommentIn(body) ==
    SubstringFrom(body, CommentEnd(body, IndexOf(body, StrCommentClose),
                                   IndexOf(body, <<45, 45, 33, 62>>)))

AfterComment(text) == AfterCommentIn(SubstringFrom(text, 4))

\* the 0-based positions of "</name" followed by a character that ends a tag name
EndTagHits(text, name) ==
    {i \in 0..(Len(text) - Len(name) - 3) :
        /\ text[i + 1] = LT
        /\ text[i + 2] = 47
        /\ MatchesAtCI(text, name, i + 2)
        /\ text[i + Len(name) + 3] \in TagBreak}

\* the text after the element of that name whose start tag opens text
AfterElementAt(text, end) == IF end = -1 THEN <<>> ELSE AfterGt(SubstringFrom(text, end))

AfterElement(text, name) == AfterElementAt(AfterGt(text), MinOrMinusOne(EndTagHits(AfterGt(text), name)))

\* the lower-cased tag name of the start tag that opens text
TagName(text) == ToLowerCase(SubSeq(text, 2, 1 + RunNotIn(TagBreak, Tail(text))))

RECURSIVE TextContent(_)
AfterStartTag(text, name) ==
    IF name \in JunkNames THEN TextContent(AfterElement(text, name))
    ELSE TextContent(AfterGt(text))

TextContentAtLt(text) ==
    IF MatchesAt(text, StrCommentOpen, 0) THEN TextContent(AfterComment(text))
    ELSE IF Len(text) >= 2 /\ text[2] \in LetterChars THEN AfterStartTag(text, TagName(text))
    ELSE IF Len(text) >= 3 /\ text[2] = 47 THEN TextContent(AfterGt(text))
    ELSE IF Len(text) >= 2 /\ text[2] \in {33, 63} THEN TextContent(AfterGt(text))
    ELSE <<LT>> \o TextContent(Tail(text))

TextContent(text) ==
    IF text = <<>> THEN <<>>
    ELSE IF Head(text) = LT THEN TextContentAtLt(text)
    ELSE <<Head(text)>> \o TextContent(Tail(text))

\* lines 105-116 on the text the replacements leave
WithoutTags(text, hasParser) == IF hasParser THEN TextContent(text) ELSE RemoveTags(text)

\* _stripHtml(html) where getDOMParser() gives a parser or none
StripHtmlWith(html, hasParser) ==
    IF html = <<>> THEN <<>>
    ELSE NormalizeText(WithoutTags(BlockTagsToNewlines(RemoveCss(RemoveMarkupBlocks(html))),
                                   hasParser))

\* _stripHtml(html) where DOMParser is undefined, as under Node
StripHtml(html) == StripHtmlWith(html, FALSE)

(* ------------------------------------------------------------------ *)
(* convertPropertyValue (msgreader.js:576-619)                         *)
(* ------------------------------------------------------------------ *)
\* DataView.getUint32(0, true) of four bytes, in the 32-bit encoding
U32(b0, b1, b2, b3) ==
    b0 + 256 * b1 + 65536 * b2 + 16777216 * (IF b3 >= 128 THEN b3 - 256 ELSE b3)

IsPrintableChar(c) ==
    \/ c >= 32 /\ c <= 126
    \/ c \in {LF, CR, 9}
    \/ c >= 160 /\ c <= 255

\* isPrintable: more than 0.7 of the characters are printable
IsPrintable(s) ==
    /\ Len(s) > 0
    /\ 10 * Cardinality({i \in 1..Len(s) : IsPrintableChar(s[i])}) > 7 * Len(s)

\* lines 600-605
PickU16(type, u16IsBetter, u8IsBetter) ==
    IF type = PROP_TYPE_STRING8 THEN u16IsBetter /\ ~u8IsBetter ELSE u16IsBetter

\* lines 596-598: a short 8-bit decode beside a longer UTF-16 one is distrusted
DistrustShortU8(u8IsBetter, u16IsBetter, u16, u8) ==
    IF u8IsBetter /\ u16IsBetter /\ Len(u8) < Len(u16) /\ Len(u8) < 5 THEN FALSE ELSE u8IsBetter

\* the variant without the short-string distrust rule of lines 596-598
UseU16_NoShortRule(type, u16, u8) == PickU16(type, IsPrintable(u16), IsPrintable(u8))

\* lines 593-605: which of the two decodes is taken
UseU16Scored(type, u16, u8, u16IsBetter, u8IsBetter) ==
    PickU16(type, u16IsBetter, DistrustShortU8(u8IsBetter, u16IsBetter, u16, u8))

UseU16(type, u16, u8) == UseU16Scored(type, u16, u8, IsPrintable(u16), IsPrintable(u8))

\* lines 607-611
TextValue(text, propId) ==
    IF propId = PROP_ID_BODY THEN Str(NormalizeText(StripHtml(text))) ELSE Str(text)

ChooseText(type, u16, u8) == IF UseU16(type, u16, u8) THEN u16 ELSE u8

\* lines 582-612: the text branch
ConvertText(data, type, propId) ==
    TextValue(ChooseText(type, DataViewToString(data, "utf16le"),
                         DataViewToString(data, "utf-8")), propId)

ConvertPropertyValue(data, type, propId) ==
    IF Len(data) = 0 THEN Null
    ELSE IF propId = PROP_ID_BODY \/ propId = PROP_ID_HTML_BODY
            \/ type = PROP_TYPE_STRING \/ type = PROP_TYPE_STRING8
    THEN ConvertText(data, type, propId)
    ELSE IF type = PROP_TYPE_BINARY THEN Bytes(data)
    ELSE IF type = PROP_TYPE_INTEGER32
         THEN IF Len(data) >= 4 THEN Num(U32(data[1], data[2], data[3], data[4])) ELSE Num(0)
    ELSE IF type = PROP_TYPE_BOOLEAN THEN Bool(data[1] # 0)
    ELSE IF type = PROP_TYPE_TIME
         THEN IF Len(data) >= 8
              THEN Date(U32(data[1], data[2], data[3], data[4]),
                        U32(data[5], data[6], data[7], data[8]))
              ELSE Null
    ELSE Bytes(data)

(* ------------------------------------------------------------------ *)
(* _readSectorChain (msgreader.js:390-416)                             *)
(* ------------------------------------------------------------------ *)
\* an offset no buffer reaches; stands for 512 + sector * sectorSize of a
\* sector number too large for the buffer to hold
FarOffset == 1073741824
MaxNearSector == 1000000

IsSentinel(sector) == sector = ENDOFCHAIN \/ sector = FREESECT

\* base + sector * sectorSize
SectorOffset(base, sector, sectorSize) ==
    IF sector < 0 \/ sector > MaxNearSector \div sectorSize THEN FarOffset
    ELSE base + sector * sectorSize

\* sector >= table.length, for an unsigned 32-bit sector
AtOrPastEnd(sector, table) == sector < 0 \/ sector >= Len(table)

\* the locals of a call before the first loop test
ChainStart(startSector, sectorSize, fatArray, isMini, totalSize) ==
    [pc |-> "loop", sectorSize |-> sectorSize, fatArray |-> fatArray, isMini |-> isMini,
     totalSize |-> totalSize, startSector |-> startSector,
     data |-> <<>>, dataOffset |-> 0, sector |-> startSector, iters |-> 0]

\* the loop test of line 395
ChainContinues(w) == ~IsSentinel(w.sector) /\ w.dataOffset < w.totalSize

\* variant that stops after the copy only at a sentinel, never at the table's end
ChainAdvance_NoLengthCheck(w) ==
    IF AtOrPastEnd(w.sector, w.fatArray) THEN [w EXCEPT !.sector = ENDOFCHAIN]
    ELSE [w EXCEPT !.sector = w.fatArray[w.sector + 1]]

\* lines 412-413: leave at the table's end, else follow the table
ChainAdvance(w) ==
    IF AtOrPastEnd(w.sector, w.fatArray) THEN [w EXCEPT !.pc = "returned"]
    ELSE [w EXCEPT !.sector = w.fatArray[w.sector + 1]]

\* variant that copies whole sectors regardless of the bytes still wanted
ChainCopyLen_WholeSector(w) == w.sectorSize

\* line 404
ChainCopyLen(w) == Min(w.sectorSize, w.totalSize - w.dataOffset)

\* lines 404-410 for a sector at byte offset `offset` of src, of which `inside`
\* bytes lie in src. A read of the DataView outside the buffer throws; a read
\* of the Uint8Array outside it stores 0.
ChainCopy(w, src, offset, copy, inside) ==
    IF ~w.isMini /\ inside < copy
    THEN [w EXCEPT !.pc = "threw", !.iters = w.iters + 1,
                   !.data = w.data \o SubSeq(src, offset + 1, offset + inside),
                   !.dataOffset = w.dataOffset + inside]
    ELSE ChainAdvance(
           [w EXCEPT !.iters = w.iters + 1,
                     !.data = w.data \o SubSeq(src, offset + 1, offset + inside)
                                     \o [i \in 1..(copy - inside) |-> 0],
                     !.dataOffset = w.dataOffset + copy])

\* number of the copy bytes wanted at offset that src holds
BytesInside(src, offset, copy) ==
    IF offset >= Len(src) THEN 0 ELSE Min(copy, Len(src) - offset)

ChainCopyAt(w, src, offset) ==
    ChainCopy(w, src, offset, ChainCopyLen(w), BytesInside(src, offset, ChainCopyLen(w)))

\* One pass of the while loop of lines 395-414 over the source src (the
\* container buffer, or the mini stream when isMini).
ChainStep(w, src) ==
    IF ~ChainContinues(w) THEN [w EXCEPT !.pc = "returned"]
    ELSE ChainCopyAt(w, src,
            SectorOffset(IF w.isMini THEN 0 ELSE HEADER_SIZE, w.sector, w.sectorSize))

RECURSIVE RunChain(_, _)
RunChain(w, src) == IF w.pc # "loop" THEN w ELSE RunChain(ChainStep(w, src), src)

\* the Uint8Array of totalSize bytes the call returns: the bytes copied, then zeros
ChainResult(w) == w.data \o [i \in 1..(w.totalSize - Len(w.data)) |-> 0]

ChainOutcome(w) == [ok |-> w.pc = "returned", data |-> ChainResult(w), iters |-> w.iters]

\* the whole call: ok = FALSE when it throws a RangeError
ReadSectorChain(startSector, sectorSize, fatArray, isMini, totalSize, src) ==
    ChainOutcome(RunChain(ChainStart(startSector, sectorSize, fatArray, isMini, totalSize), src))

(* ------------------------------------------------------------------ *)
(* parseAddress (msgreader.js:217-229), _extractAddresses (621-630)    *)
(* ------------------------------------------------------------------ *)
\* [a-z0-9._%+-] and [a-z0-9.-] under the i flag
LocalChars == LetterChars \cup DigitChars \cup {46, 95, 37, 43, 45}
DomainChars == LetterChars \cup DigitChars \cup {46, 45}
\* the characters '.' does not match
IsLineTerminator(c) == c \in {10, 13, 8232, 8233}

RECURSIVE Reverse(_)
Reverse(s) == IF s = <<>> THEN <<>> ELSE Append(Reverse(Tail(s)), Head(s))

\* The leftmost match of /[a-z0-9._%+-]+@[a-z0-9.-]+\.[a-z]{2,}/i in s, as
\* <<start, end>> (0-based, end exclusive), or <<-1, -1>>. A match is fixed by
\* its '@' at position p: the local part is the maximal run before p, the
\* domain run after p is cut at its last '.' followed by two letters or more,
\* and the letters after that '.' are taken greedily.
\* dots: the 0-based positions of such a '.'; loc: the length of the local run
EmailSpan(s, p, loc, dots) ==
    IF loc = 0 \/ dots = {} THEN <<-1, -1>>
    ELSE <<p - loc, MaxOf(dots) + 1 + RunIn(LetterChars, SubSeq(s, MaxOf(dots) + 2, Len(s)))>>

DomainDots(s, p, dom) ==
    {d \in (p + 2)..(p + dom) :
        s[d + 1] = 46 /\ RunIn(LetterChars, SubSeq(s, d + 2, Len(s))) >= 2}

EmailMatchAtSign(s, p) ==
    EmailSpan(s, p, RunIn(LocalChars, Reverse(SubSeq(s, 1, p))),
              DomainDots(s, p, RunIn(DomainChars, SubSeq(s, p + 2, Len(s)))))

EmailMatchFirst(s, ats) ==
    IF ats = {} THEN <<-1, -1>> ELSE EmailMatchAtSign(s, MinOf(ats))

EmailMatch(s) ==
    EmailMatchFirst(s, {p \in 0..(Len(s) - 1) :
                           s[p + 1] = 64 /\ EmailMatchAtSign(s, p)[1] # -1})

\* The match of /^(.*)<([^>]+)>$/ in s, as the 0-based position of its '<', or -1:
\* s ends with '>', the text between '<' and that '>' is non-empty and free of
\* '>', no line terminator precedes '<'; the greedy (.*) takes the last such '<'.
AngleLast(s, cands) ==
    IF Len(s) < 3 \/ s[Len(s)] # GT \/ cands = {} THEN -1 ELSE MaxOf(cands)

AngleMatch(s) ==
    AngleLast(s, {j \in 0..(Len(s) - 3) :
                     /\ s[j + 1] = LT
                     /\ \A k \in (j + 2)..(Len(s) - 1) : s[k] # GT
                     /\ \A k \in 1..j : ~IsLineTerminator(s[k])})

\* .replace(/^"|"$/g, '')
StripEndQuote(a) == IF a # <<>> /\ a[Len(a)] = 34 THEN SubSeq(a, 1, Len(a) - 1) ELSE a
StripQuotes(s) == StripEndQuote(IF s # <<>> /\ s[1] = 34 THEN Tail(s) ELSE s)

\* String.prototype.replace(pattern, '') of a string pattern: the first occurrence
RemoveAt(s, pat, at) ==
    IF at = -1 THEN s ELSE SubSeq(s, 1, at) \o SubSeq(s, at + Len(pat) + 1, Len(s))
RemoveFirst(s, pat) == RemoveAt(s, pat, IndexOf(s, pat))

\* lines 224-226: the address matched, and the name without it
AddressFound(addr, name, email) ==
    [name |-> IF name = addr
              THEN IF name = email THEN <<>> ELSE Trim(RemoveFirst(name, email))
              ELSE name,
     email |-> Str(email)]

\* lines 223-228 for the candidate text email1 and its match m
AddressOf(addr, name, email1, m) ==
    IF m[1] # -1 THEN AddressFound(addr, name, SubSeq(email1, m[1] + 1, m[2]))
    ELSE [name |-> name, email |-> Null]

AddressIn(addr, name, email1) == AddressOf(addr, name, email1, EmailMatch(email1))

\* lines 220-222 for the trimmed text addr and the position lt of its '<'
AddressSplit(addr, lt) ==
    IF lt # -1
    THEN AddressIn(addr, StripQuotes(Trim(SubSeq(addr, 1, lt))),
                   Trim(SubSeq(addr, lt + 2, Len(addr) - 1)))
    ELSE AddressIn(addr, addr, addr)

AddressTrimmed(addr) == AddressSplit(addr, AngleMatch(addr))

\* parseAddress: email is Null or Str
ParseAddress(addr) ==
    IF addr = <<>> THEN [name |-> <<>>, email |-> Null] ELSE AddressTrimmed(Trim(addr))

\* String.prototype.split(/[;,]/)
RECURSIVE SplitList(_)
SplitAt(s, cut) ==
    IF cut = Len(s) THEN <<s>>
    ELSE <<SubSeq(s, 1, cut)>> \o SplitList(SubSeq(s, cut + 2, Len(s)))

SplitList(s) == SplitAt(s, RunNotIn({59, 44}, s))

\* the addresses found in the parts of a display string, in order
RECURSIVE EmailsOf(_)
EmailsOfNext(email, rest) ==
    IF Truthy(email) THEN <<email.s>> \o EmailsOf(rest) ELSE EmailsOf(rest)

EmailsOf(parts) ==
    IF parts = <<>> THEN <<>> ELSE EmailsOfNext(ParseAddress(Head(parts)).email, Tail(parts))

LowerAll(emails) == [i \in 1..Len(emails) |-> ToLowerCase(emails[i])]

\* variant that keeps the case of the addresses
ExtractAddresses_KeepCase(displayString) ==
    IF ~Truthy(displayString) THEN <<>> ELSE EmailsOf(SplitList(displayString.s))

\* _extractAddresses of a display string value (Null or Str): the lower-cased addresses
ExtractAddresses(displayString) ==
    IF ~Truthy(displayString) THEN <<>> ELSE LowerAll(EmailsOf(SplitList(displayString.s)))

(* ------------------------------------------------------------------ *)
(* extractRecipients (msgreader.js:632-724)                            *)
(* A child of a recipient sub-storage is [id, type, data]: the property *)
(* tag parsed from its name and the stream read for it.                *)
(* ------------------------------------------------------------------ *)
NewRecipient == [recipientType |-> Num(RECIPIENT_TYPE_TO), name |-> Str(<<>>), email |-> <<>>,
                 ok |-> TRUE]

\* propValue && propValue.indexOf('@') > -1: a string is searched, a Uint8Array
\* never holds the string '@', any other truthy value has no indexOf and throws
HasAtSign(propValue) == propValue.k = "str" /\ IndexOf(propValue.s, <<64>>) > -1
IndexOfThrows(propValue) == Truthy(propValue) /\ propValue.k \notin {"str", "bytes"}

\* lines 675-683: the effect of one child's value on the recipient being built
ApplyValue(recipient, id, propValue) ==
    IF ~recipient.ok THEN recipient
    ELSE IF id = PROP_ID_RECIPIENT_TYPE
    THEN [recipient EXCEPT !.recipientType =
             IF Truthy(propValue) THEN propValue ELSE Num(RECIPIENT_TYPE_TO)]
    ELSE IF id = PROP_ID_RECIPIENT_DISPLAY_NAME
    THEN [recipient EXCEPT !.name = IF Truthy(propValue) THEN propValue ELSE Str(<<>>)]
    ELSE IF id = PROP_ID_RECIPIENT_EMAIL_ADDRESS \/ id = PROP_ID_RECIPIENT_SMTP_ADDRESS
    THEN IF IndexOfThrows(propValue) THEN [recipient EXCEPT !.ok = FALSE]
         ELSE IF HasAtSign(propValue) THEN [recipient EXCEPT !.email = propValue.s]
         ELSE recipient
    ELSE recipient

\* lines 668-684
ApplyChild(recipient, child) ==
    ApplyValue(recipient, child.id, ConvertPropertyValue(child.data, child.type, child.id))

RECURSIVE RecipientOf(_, _)
RecipientOf(recipient, children) ==
    IF children = <<>> THEN recipient
    ELSE RecipientOf(ApplyChild(recipient, Head(children)), Tail(children))

\* line 686
IsKept(recipient) == recipient.email # <<>> \/ Truthy(recipient.name)

\* lines 640-689 over the children lists of the recipient sub-storages, in
\* directory order: ok = FALSE when a child makes the scan throw
RECURSIVE CollectRecipients(_)
CollectNext(r, rest) ==
    IF ~r.ok \/ ~rest.ok THEN [ok |-> FALSE, list |-> <<>>]
    ELSE [ok |-> TRUE,
          list |-> (IF IsKept(r) THEN <<[recipientType |-> r.recipientType,
                                         name |-> r.name, email |-> r.email]>>
                    ELSE <<>>) \o rest.list]

CollectRecipients(storages) ==
    IF storages = <<>> THEN [ok |-> TRUE, list |-> <<>>]
    ELSE CollectNext(RecipientOf(NewRecipient, Head(storages)), CollectRecipients(Tail(storages)))

\* lines 698-707: occurrences per address
CountsOf(emails) ==
    [e \in {emails[i] : i \in 1..Len(emails)} |->
        Cardinality({i \in 1..Len(emails) : emails[i] = e})]

\* counts[key] of a plain object: a missing key is falsy
CountAt(counts, key) == IF key \in DOMAIN counts THEN counts[key] ELSE 0

\* variant that tests To before Cc
ReconcileOne_ToFirst(recipient, toEmailCounts, ccEmailCounts) ==
    LET emailKey == ToLowerCase(recipient.email)
    IN IF CountAt(toEmailCounts, emailKey) > 0
       THEN [recipient |-> [recipient EXCEPT !.recipientType = Num(RECIPIENT_TYPE_TO)],
             to |-> [toEmailCounts EXCEPT ![emailKey] = @ - 1], cc |-> ccEmailCounts]
       ELSE IF CountAt(ccEmailCounts, emailKey) > 0
       THEN [recipient |-> [recipient EXCEPT !.recipientType = Num(RECIPIENT_TYPE_CC)],
             to |-> toEmailCounts, cc |-> [ccEmailCounts EXCEPT ![emailKey] = @ - 1]]
       ELSE [recipient |-> recipient, to |-> toEmailCounts, cc |-> ccEmailCounts]

\* variant that tests presence without decrementing
ReconcileOne_NoDecrement(recipient, toEmailCounts, ccEmailCounts) ==
    LET emailKey == ToLowerCase(recipient.email)
    IN IF CountAt(ccEmailCounts, emailKey) > 0
       THEN [recipient |-> [recipient EXCEPT !.recipientType = Num(RECIPIENT_TYPE_CC)],
             to |-> toEmailCounts, cc |-> ccEmailCounts]
       ELSE IF CountAt(toEmailCounts, emailKey) > 0
       THEN [recipient |-> [recipient EXCEPT !.recipientType = Num(RECIPIENT_TYPE_TO)],
             to |-> toEmailCounts, cc |-> ccEmailCounts]
       ELSE [recipient |-> recipient, to |-> toEmailCounts, cc |-> ccEmailCounts]

\* variant that writes the lower-cased key back into the recipient
ReconcileOne_KeyAsEmail(recipient, toEmailCounts, ccEmailCounts) ==
    LET emailKey == ToLowerCase(recipient.email)
    IN IF CountAt(ccEmailCounts, emailKey) > 0
       THEN [recipient |-> [recipient EXCEPT !.recipientType = Num(RECIPIENT_TYPE_CC),
                                             !.email = emailKey],
             to |-> toEmailCounts, cc |-> [ccEmailCounts EXCEPT ![emailKey] = @ - 1]]
       ELSE IF CountAt(toEmailCounts, emailKey) > 0
       THEN [recipient |-> [recipient EXCEPT !.recipientType = Num(RECIPIENT_TYPE_TO),
                                             !.email = emailKey],
             to |-> [toEmailCounts EXCEPT ![emailKey] = @ - 1], cc |-> ccEmailCounts]
       ELSE [recipient |-> recipient, to |-> toEmailCounts, cc |-> ccEmailCounts]

\* lines 709-720: one pass of recipients.forEach
ReconcileOne(recipient, toEmailCounts, ccEmailCounts) ==
    LET emailKey == ToLowerCase(recipient.email)
    IN IF CountAt(ccEmailCounts, emailKey) > 0
       THEN [recipient |-> [recipient EXCEPT !.recipientType = Num(RECIPIENT_TYPE_CC)],
             to |-> toEmailCounts, cc |-> [ccEmailCounts EXCEPT ![emailKey] = @ - 1]]
       ELSE IF CountAt(toEmailCounts, emailKey) > 0
       THEN [recipient |-> [recipient EXCEPT !.recipientType = Num(RECIPIENT_TYPE_TO)],
             to |-> [toEmailCounts EXCEPT ![emailKey] = @ - 1], cc |-> ccEmailCounts]
       ELSE [recipient |-> recipient, to |-> toEmailCounts, cc |-> ccEmailCounts]

\* the locals of extractRecipients at line 709, before the first pass
ReconcileStart(recipients, displayTo, displayCc) ==
    [recipients |-> recipients, i |-> 1,
     toEmailCounts |-> CountsOf(ExtractAddresses(displayTo)),
     ccEmailCounts |-> CountsOf(ExtractAddresses(displayCc))]

ReconcileApply(st, r) ==
    [recipients |-> [st.recipients EXCEPT ![st.i] = r.recipient], i |-> st.i + 1,
     toEmailCounts |-> r.to, ccEmailCounts |-> r.cc]

ReconcileStep(st) ==
    ReconcileApply(st, ReconcileOne(st.recipients[st.i], st.toEmailCounts, st.ccEmailCounts))

RECURSIVE ReconcileRun(_)
ReconcileRun(st) == IF st.i > Len(st.recipients) THEN st ELSE ReconcileRun(ReconcileStep(st))

\* line 694
ReconcileWanted(displayTo, displayCc) == Truthy(displayTo) \/ Truthy(displayCc)

\* lines 691-723: the list stored in properties['recipients']
Reconciled(recipients, displayTo, displayCc) ==
    IF ReconcileWanted(displayTo, displayCc)
    THEN ReconcileRun(ReconcileStart(recipients, displayTo, displayCc)).recipients
    ELSE recipients

(* ------------------------------------------------------------------ *)
(* DataView reads of the buffer b at a 0-based offset, little-endian   *)
(* ------------------------------------------------------------------ *)
GetUint8(b, off) == b[off + 1]
GetUint16(b, off) == b[off + 1] + 256 * b[off + 2]
GetUint32(b, off) == U32(b[off + 1], b[off + 2], b[off + 3], b[off + 4])

\* the n bytes at off lie in b
InBuffer(b, off, n) == off >= 0 /\ off + n <= Len(b)

\* a < b for two unsigned 32-bit numbers in the 32-bit encoding
ULess(a, b) == IF (a < 0) = (b < 0) THEN a < b ELSE b < 0

\* the number of passes of `for (j = 0; j < size / unit; j++)`
CeilDiv(size, unit) == (size + unit - 1) \div unit

NotSentinel(s) == ~IsSentinel(s)

(* ------------------------------------------------------------------ *)
(* readHeader (msgreader.js:293-308)                                   *)
(* ------------------------------------------------------------------ *)
\* the 0xE011CFD0 of lines 295 and 738
OLE_SIGNATURE == U32(208, 207, 17, 224)

\* Math.pow(2, shift); a shift above 16 gives a sector no buffer here holds
SectorSizeOf(shift) == IF shift > 16 THEN FarOffset ELSE 2 ^ shift

\* lines 296-307
HeaderOf(b) ==
    [sectorShift |-> GetUint16(b, 30),
     miniSectorShift |-> GetUint16(b, 32),
     fatSectors |-> GetUint32(b, 44),
     directoryFirstSector |-> GetUint32(b, 48),
     miniFatFirstSector |-> GetUint32(b, 60),
     miniFatTotalSectors |-> GetUint32(b, 64),
     difFirstSector |-> GetUint32(b, 68),
     difTotalSectors |-> GetUint32(b, 72),
     sectorSize |-> SectorSizeOf(GetUint16(b, 30)),
     miniSectorSize |-> SectorSizeOf(GetUint16(b, 32))]

(* ------------------------------------------------------------------ *)
(* readFAT (msgreader.js:310-337)                                      *)
(* ------------------------------------------------------------------ *)
\* line 314: the number of header DIFAT slots read
HeaderSlots(fatSectors) == IF ULess(fatSectors, 109) THEN fatSectors ELSE 109

\* lines 314-317
HeaderFatPositions(b, fatSectors) ==
    SelectSeq([i \in 1..HeaderSlots(fatSectors) |-> GetUint32(b, 76 + (i - 1) * 4)], NotSentinel)

\* lines 323-327 read past the buffer for the DIFAT sector at difOffset
DifReadThrows(b, difOffset, sectorSize) ==
    \/ \E j \in 0..(CeilDiv(sectorSize, 4) - 2) : ~InBuffer(b, difOffset + j * 4, 4)
    \/ ~InBuffer(b, difOffset + sectorSize - 4, 4)

\* lines 323-326
DifSectorPositions(b, difOffset, sectorSize) ==
    SelectSeq([j \in 1..(CeilDiv(sectorSize, 4) - 1) |-> GetUint32(b, difOffset + (j - 1) * 4)],
              NotSentinel)

\* lines 321-329: ok = FALSE when a read throws a RangeError
RECURSIVE DifWalk(_, _, _, _, _)
DifWalkAt(b, h, difOffset, sectorsRead, positions) ==
    IF DifReadThrows(b, difOffset, h.sectorSize) THEN [ok |-> FALSE, positions |-> positions]
    ELSE DifWalk(b, h, GetUint32(b, difOffset + h.sectorSize - 4), sectorsRead + 1,
                 positions \o DifSectorPositions(b, difOffset, h.sectorSize))

DifWalk(b, h, difSector, sectorsRead, positions) ==
    IF IsSentinel(difSector) \/ ~ULess(sectorsRead, h.difTotalSectors)
    THEN [ok |-> TRUE, positions |-> positions]
    ELSE DifWalkAt(b, h, SectorOffset(HEADER_SIZE, difSector, h.sectorSize), sectorsRead, positions)

\* lines 313-330
FatSectorPositions(b, h) ==
    IF h.difTotalSectors # 0
    THEN DifWalk(b, h, h.difFirstSector, 0, HeaderFatPositions(b, h.fatSectors))
    ELSE [ok |-> TRUE, positions |-> HeaderFatPositions(b, h.fatSectors)]

\* lines 333-335, also 346-348: the 32-bit entries of the sector at offset
\* that lie wholly in the buffer
TableEntries(b, offset, sectorSize) ==
    [j \in 1..Clamp((Len(b) - offset) \div 4, CeilDiv(sectorSize, 4)) |->
        GetUint32(b, offset + (j - 1) * 4)]

\* lines 331-336
RECURSIVE FatOf(_, _, _)
FatOf(b, h, positions) ==
    IF positions = <<>> THEN <<>>
    ELSE TableEntries(b, SectorOffset(HEADER_SIZE, Head(positions), h.sectorSize), h.sectorSize)
            \o FatOf(b, h, Tail(positions))

\* readFAT: ok = FALSE when the DIFAT walk throws
FatFrom(b, h, found) ==
    [ok |-> found.ok, fat |-> IF found.ok THEN FatOf(b, h, found.positions) ELSE <<>>]

ReadFAT(b, h) == FatFrom(b, h, FatSectorPositions(b, h))

(* ------------------------------------------------------------------ *)
(* readMiniFAT (msgreader.js:339-353)                                  *)
(* ------------------------------------------------------------------ *)
\* lines 344-352
RECURSIVE MiniFatWalk(_, _, _, _, _)
MiniFatWalk(b, h, fat, sector, sectorsRead) ==
    IF IsSentinel(sector) \/ ~ULess(sectorsRead, h.miniFatTotalSectors) THEN <<>>
    ELSE TableEntries(b, SectorOffset(HEADER_SIZE, sector, h.sectorSize), h.sectorSize)
            \o (IF AtOrPastEnd(sector, fat) THEN <<>>
                ELSE MiniFatWalk(b, h, fat, fat[sector + 1], sectorsRead + 1))

ReadMiniFAT(b, h, fat) ==
    IF h.miniFatFirstSector = ENDOFCHAIN THEN <<>>
    ELSE MiniFatWalk(b, h, fat, h.miniFatFirstSector, 0)

(* ------------------------------------------------------------------ *)
(* readDirectoryEntry (373-388), readDirectory (355-371)               *)
(* ------------------------------------------------------------------ *)
\* lines 376-387, with the test of line 364 on the name
EntryNamed(b, offset, name, type) ==
    IF (type # 1 /\ type # 2 /\ type # 5) \/ name = <<>> THEN <<>>
    ELSE <<[name |-> name, type |-> type,
            startSector |-> GetUint32(b, offset + 116),
            size |-> GetUint32(b, offset + 120),
            leftSiblingId |-> GetUint32(b, offset + 68),
            rightSiblingId |-> GetUint32(b, offset + 72),
            childId |-> GetUint32(b, offset + 76)]>>

\* lines 374-375
EntrySized(b, offset, nameLen) ==
    IF nameLen = 0 \/ nameLen > 64 THEN <<>>
    ELSE EntryNamed(b, offset,
                    DataViewToString(SubSeq(b, offset + 1, offset + Min(nameLen, 64)), "utf16le"),
                    GetUint8(b, offset + 66))

\* the entry pushed at line 364 for the slot at entryOffset: <<entry>> or <<>>
EntryAt(b, entryOffset) == EntrySized(b, entryOffset, GetUint16(b, entryOffset + 64))

\* lines 360-365: the entries kept from slots first..last of the sector at offset
RECURSIVE SectorEntries(_, _, _, _)
SectorEntries(b, offset, i, slots) ==
    IF i >= slots \/ offset + i * DIR_ENTRY_SIZE + DIR_ENTRY_SIZE > Len(b) THEN <<>>
    ELSE EntryAt(b, offset + i * DIR_ENTRY_SIZE) \o SectorEntries(b, offset, i + 1, slots)

\* one pass of the while loop of lines 358-369 on the parser object p
DirectoryPass(b, p) ==
    IF AtOrPastEnd(p.sector, p.fat)
    THEN [p EXCEPT !.pc = "readDirectoryEnd",
                   !.directoryEntries = @ \o SectorEntries(b,
                        SectorOffset(HEADER_SIZE, p.sector, p.header.sectorSize), 0,
                        CeilDiv(p.header.sectorSize, DIR_ENTRY_SIZE))]
    ELSE [p EXCEPT !.sector = p.fat[p.sector + 1],
                   !.sectorsRead = @ + 1,
                   !.directoryEntries = @ \o SectorEntries(b,
                        SectorOffset(HEADER_SIZE, p.sector, p.header.sectorSize), 0,
                        CeilDiv(p.header.sectorSize, DIR_ENTRY_SIZE))]

(* ------------------------------------------------------------------ *)
(* readStream (msgreader.js:418-433)                                   *)
(* ------------------------------------------------------------------ *)
Throws == [ok |-> FALSE, data |-> <<>>]
EmptyStream == [ok |-> TRUE, data |-> <<>>]

\* line 431
ReadFatStream(b, h, fat, entry) ==
    ReadSectorChain(entry.startSector, h.sectorSize, fat, FALSE, entry.size, b)

\* lines 425-427: the content of the root entry
MiniStreamData(b, h, fat, root) ==
    IF root.size = 0 THEN EmptyStream ELSE ReadFatStream(b, h, fat, root)

\* line 429 once the mini stream is there
ReadMiniStream(h, miniFat, entry, mini) ==
    IF ~mini.ok THEN Throws
    ELSE ReadSectorChain(entry.startSector, h.miniSectorSize, miniFat, TRUE, entry.size, mini.data)

\* lines 422-429
ReadViaRoot(b, h, fat, miniFat, entry, roots) ==
    IF roots = <<>> THEN EmptyStream
    ELSE ReadMiniStream(h, miniFat, entry, MiniStreamData(b, h, fat, Head(roots)))

IsRoot(e) == e.type = 5

\* readStream(entry) on the parser object p: [ok, data, iters]
ReadStream(b, p, entry) ==
    IF entry.size = 0 THEN EmptyStream
    ELSE IF ULess(entry.size, MINI_STREAM_CUTOFF) /\ entry.type # 5
    THEN ReadViaRoot(b, p.header, p.fat, p.miniFat, entry, SelectSeq(p.directoryEntries, IsRoot))
    ELSE ReadFatStream(b, p.header, p.fat, entry)

(* ------------------------------------------------------------------ *)
(* _decodeQuotedPrintable (msgreader.js:64-83)                         *)
(* ------------------------------------------------------------------ *)
\* [0-9A-F]
HexUpper == DigitChars \cup (65..70)
HexValue(c) == IF c \in DigitChars THEN c - 48 ELSE c - 55

\* .replace(/=(\r\n|\n)/g, '')
RECURSIVE JoinSoftLines(_)
JoinSoftLines(s) ==
    IF s = <<>> THEN <<>>
    ELSE IF Len(s) >= 3 /\ s[1] = 61 /\ s[2] = CR /\ s[3] = LF
         THEN JoinSoftLines(SubSeq(s, 4, Len(s)))
    ELSE IF Len(s) >= 2 /\ s[1] = 61 /\ s[2] = LF THEN JoinSoftLines(SubSeq(s, 3, Len(s)))
    ELSE <<s[1]>> \o JoinSoftLines(Tail(s))

\* .replace(/=([0-9A-F]{2})/g, ...)
RECURSIVE HexToChars(_)
HexToChars(s) ==
    IF s = <<>> THEN <<>>
    ELSE IF Len(s) >= 3 /\ s[1] = 61 /\ s[2] \in HexUpper /\ s[3] \in HexUpper
         THEN <<16 * HexValue(s[2]) + HexValue(s[3])>> \o HexToChars(SubSeq(s, 4, Len(s)))
    ELSE <<s[1]>> \o HexToChars(Tail(s))

\* lines 73-74: the code units stored in a Uint8Array
ToBytes(s) == [i \in 1..Len(s) |-> s[i] % 256]

\* the labels TextDecoder resolves, as drawn here: "utf-8", "utf8"; and
\* "iso-8859-1", "latin1", "ascii", "windows-1252"
Utf8Labels == {<<117, 116, 102, 45, 56>>, <<117, 116, 102, 56>>}
Latin1Labels ==
    {<<105, 115, 111, 45, 56, 56, 53, 57, 45, 49>>, <<108, 97, 116, 105, 110, 49>>,
     <<97, 115, 99, 105, 105>>, <<119, 105, 110, 100, 111, 119, 115, 45, 49, 50, 53, 50>>}
UsAscii == <<117, 115, 45, 97, 115, 99, 105, 105>>

\* new TextDecoder(encoding).decode(bytes): a label TextDecoder does not know
\* makes it throw, and the text before decoding is returned (lines 79-81)
DecodeLabel(decoded, label) ==
    IF label \in Utf8Labels THEN Utf8Lossy(StripBom8(ToBytes(decoded)))
    ELSE IF label \in Latin1Labels \cup {UsAscii} THEN Win1252Decode(ToBytes(decoded))
    ELSE decoded

\* lines 76-79
DecodeAs(decoded, encoding) ==
    DecodeLabel(decoded, IF encoding = UsAscii THEN <<117, 116, 102, 45, 56>> ELSE Trim(encoding))

DecodeQuotedPrintable(str, charset) ==
    IF str = <<>> THEN <<>>
    ELSE DecodeAs(HexToChars(JoinSoftLines(str)), ToLowerCase(charset))

(* ------------------------------------------------------------------ *)
(* _scanBufferForMimeText (msgreader.js:435-525)                       *)
(* ------------------------------------------------------------------ *)
\* \w
WordChars == LetterChars \cup DigitChars \cup {95}

\* \b before a word character at p
WordBoundaryBefore(text, p) == p = 0 \/ text[p] \notin WordChars

\* ^ under the m flag
LineStartAt(text, p) == p = 0 \/ IsLineTerminator(text[p])

\* the position that ends the run of \s starting at q
SkipSpace(text, q) ==
    MinOf({i \in q..Len(text) : i = Len(text) \/ ~IsWhiteSpace(text[i + 1])})

\* the position that ends the run of [^\r\n] starting at q
LineEnd(text, q) ==
    MinOf({i \in q..Len(text) : i = Len(text) \/ text[i + 1] \in {CR, LF}})

\* \s*([^\r\n]+) at q: the positions where the group can start, the greedy \s*
\* giving back white space until a character other than CR and LF follows
CaptureStarts(text, q) ==
    {k \in q..SkipSpace(text, q) : k < Len(text) /\ text[k + 1] \notin {CR, LF}}

CaptureFrom(text, k) == SubSeq(text, k + 1, LineEnd(text, k))
CaptureAt(text, q) == CaptureFrom(text, MaxOf(CaptureStarts(text, q)))

\* match[1].trim() of the leftmost match, or null
FieldFirst(text, n, hits) ==
    IF hits = {} THEN Null ELSE Str(Trim(CaptureAt(text, MinOf(hits) + n)))

\* findField(name) for the lower-case `name:` (lines 450-454)
FindField(text, name) ==
    FieldFirst(text, Len(name),
               {p \in 0..(Len(text) - 1) :
                   /\ MatchesAtCI(text, name, p)
                   /\ WordBoundaryBefore(text, p)
                   /\ CaptureStarts(text, p + Len(name)) # {}})

\* /^Bcc:\s*([^\r\n]+)/im of line 277
FindLineField(text, name) ==
    FieldFirst(text, Len(name),
               {p \in 0..(Len(text) - 1) :
                   /\ MatchesAtCI(text, name, p)
                   /\ LineStartAt(text, p)
                   /\ CaptureStarts(text, p + Len(name)) # {}})

\* the positions of text where /header\s*value/i matches
HeaderValueHits(text, header, value) ==
    {p \in 0..(Len(text) - 1) :
        /\ MatchesAtCI(text, header, p)
        /\ MatchesAtCI(text, value, SkipSpace(text, p + Len(header)))}

StrContentType == <<99, 111, 110, 116, 101, 110, 116, 45, 116, 121, 112, 101, 58>>
StrMultipart == <<109, 117, 108, 116, 105, 112, 97, 114, 116>>
StrTextPlain == <<116, 101, 120, 116, 47, 112, 108, 97, 105, 110>>
StrTransferEncoding ==
    <<99, 111, 110, 116, 101, 110, 116, 45, 116, 114, 97, 110, 115, 102, 101, 114, 45,
      101, 110, 99, 111, 100, 105, 110, 103, 58>>
StrQuotedPrintable ==
    <<113, 117, 111, 116, 101, 100, 45, 112, 114, 105, 110, 116, 97, 98, 108, 101>>
StrCharset == <<99, 104, 97, 114, 115, 101, 116, 61>>
StrUtf8 == <<117, 116, 102, 45, 56>>
StrSubject == <<115, 117, 98, 106, 101, 99, 116, 58>>
StrTo == <<116, 111, 58>>
StrCc == <<99, 99, 58>>
StrBcc == <<98, 99, 99, 58>>
CRLFCRLF == <<CR, LF, CR, LF>>
LFLF == <<LF, LF>>

\* line 468
IsMultipart(text) == HeaderValueHits(text, StrContentType, StrMultipart) # {}

\* line 488
PartIsQuotedPrintable(partHeaders) ==
    HeaderValueHits(partHeaders, StrTransferEncoding, StrQuotedPrintable) # {}

\* line 512
IsQuotedPrintable(text) ==
    \E p \in HeaderValueHits(text, StrTransferEncoding, StrQuotedPrintable) : LineStartAt(text, p)

\* charset=["']?([^"';\r\n]+): where the group starts for a match at p
CharsetStart(text, p) ==
    IF p + 8 < Len(text) /\ text[p + 9] \in {34, 39} THEN p + 9 ELSE p + 8

CharsetRun(text, p) ==
    RunNotIn({34, 39, 59, CR, LF}, SubSeq(text, CharsetStart(text, p) + 1, Len(text)))

CharsetFirst(text, hits) ==
    IF hits = {} THEN StrUtf8
    ELSE SubSeq(text, CharsetStart(text, MinOf(hits)) + 1,
                CharsetStart(text, MinOf(hits)) + CharsetRun(text, MinOf(hits)))

\* lines 466, 492-493, 516-517
CharsetOf(text) ==
    CharsetFirst(text, {p \in 0..(Len(text) - 1) :
                           MatchesAtCI(text, StrCharset, p) /\ CharsetRun(text, p) >= 1})

\* line 520
Decoded(bodyText, quotedPrintable, charset) ==
    IF quotedPrintable THEN DecodeQuotedPrintable(bodyText, charset) ELSE bodyText

\* lines 497-506
PartEnd(bodyText, boundRN, boundN) ==
    IF boundRN # -1 /\ (boundN = -1 \/ boundRN < boundN) THEN boundRN
    ELSE IF boundN # -1 THEN boundN
    ELSE Len(bodyText)

\* lines 495-509
PartText(bodyText, start, startOffset) ==
    IF start = -1 THEN bodyText
    ELSE Trim(Substring(bodyText, start + startOffset,
                        PartEnd(bodyText,
                                IndexOfFrom(bodyText, <<CR, LF, 45, 45>>, start + startOffset),
                                IndexOfFrom(bodyText, <<LF, 45, 45>>, start + startOffset))))

\* lines 487-509 and 520
PartBody(bodyText, partHeaders, start, startOffset) ==
    Decoded(PartText(bodyText, start, startOffset), PartIsQuotedPrintable(partHeaders),
            CharsetOf(partHeaders))

PartFrom(bodyText, plainTypeIndex, start, startOffset) ==
    PartBody(bodyText, Substring(bodyText, plainTypeIndex, start), start, startOffset)

\* lines 476-485
PartStart(bodyText, plainTypeIndex, rnrn, nn) ==
    IF rnrn # -1 /\ (nn = -1 \/ rnrn < nn) THEN PartFrom(bodyText, plainTypeIndex, rnrn, 4)
    ELSE IF nn # -1 THEN PartFrom(bodyText, plainTypeIndex, nn, 2)
    ELSE PartFrom(bodyText, plainTypeIndex, -1, 0)

\* lines 469-510
PlainPart(bodyText, plainTypeIndex) ==
    IF plainTypeIndex = -1 THEN bodyText
    ELSE PartStart(bodyText, plainTypeIndex,
                   IndexOfFrom(bodyText, CRLFCRLF, plainTypeIndex),
                   IndexOfFrom(bodyText, LFLF, plainTypeIndex))

MultipartBody(bodyText) ==
    PlainPart(bodyText, MinOrMinusOne(HeaderValueHits(bodyText, StrContentType, StrTextPlain)))

\* lines 464-520
BodyAfter(rawText, bodyText) ==
    IF IsMultipart(rawText) THEN MultipartBody(bodyText)
    ELSE Decoded(bodyText, IsQuotedPrintable(rawText), CharsetOf(rawText))

\* lines 463-521
BodyAt(rawText, headerEndIndex) ==
    IF headerEndIndex = -1 THEN Null
    ELSE Str(BodyAfter(rawText, SubstringFrom(rawText, headerEndIndex + 4)))

\* lines 460-461
HeaderEnd(rnrn, rawText) == IF rnrn = -1 THEN IndexOf(rawText, LFLF) ELSE rnrn
HeaderEndIndex(rawText) == HeaderEnd(IndexOf(rawText, CRLFCRLF), rawText)

\* the object _scanBufferForMimeText returns for the decoded text rawText
ScanBufferForMimeText(rawText) ==
    [subject |-> FindField(rawText, StrSubject),
     to |-> FindField(rawText, StrTo),
     cc |-> FindField(rawText, StrCc),
     body |-> BodyAt(rawText, HeaderEndIndex(rawText))]

\* new TextDecoder('utf-8', {fatal: false}).decode(this.dataView) of lines 258, 439
RawTextOf(b) == Utf8Lossy(StripBom8(b))

(* ------------------------------------------------------------------ *)
(* parseMime (msgreader.js:255-291)                                    *)
(* ------------------------------------------------------------------ *)
\* line 269: a comma that an even number of quotes follows
IsCut(s, i) == s[i] = 44 /\ Cardinality({j \in (i + 1)..Len(s) : s[j] = 34}) % 2 = 0

RECURSIVE SplitQuoted(_)
SplitQuotedAt(s, cuts) ==
    IF cuts = {} THEN <<s>>
    ELSE <<SubSeq(s, 1, MinOf(cuts) - 1)>> \o SplitQuoted(SubSeq(s, MinOf(cuts) + 1, Len(s)))

SplitQuoted(s) == SplitQuotedAt(s, {i \in 1..Len(s) : IsCut(s, i)})

\* lines 270-271
RECURSIVE MimeRecipients(_, _)
MimeRecipient(parsed, type, rest) ==
    IF Truthy(parsed.email)
    THEN <<[recipientType |-> Num(type), name |-> Str(parsed.name), email |-> parsed.email.s]>>
            \o MimeRecipients(rest, type)
    ELSE MimeRecipients(rest, type)

MimeRecipients(parts, type) ==
    IF parts = <<>> THEN <<>> ELSE MimeRecipient(ParseAddress(Head(parts)), type, Tail(parts))

\* parseMimeAddresses(addrString, type), lines 267-273
ParseMimeAddresses(addrString, type) ==
    IF ~Truthy(addrString) THEN <<>> ELSE MimeRecipients(SplitQuoted(addrString.s), type)

\* the record parseMime returns, lines 264-290
MimeRecord(rawText, mimeData) ==
    [subject |-> mimeData.subject,
     body |-> mimeData.body,
     bodyHTML |-> Null,
     recipients |-> ParseMimeAddresses(mimeData.to, RECIPIENT_TYPE_TO)
                       \o ParseMimeAddresses(mimeData.cc, RECIPIENT_TYPE_CC)
                       \o ParseMimeAddresses(FindLineField(rawText, StrBcc), RECIPIENT_TYPE_BCC)]

ParseMimeText(rawText) == MimeRecord(rawText, ScanBufferForMimeText(rawText))

ParseMime(b) == ParseMimeText(RawTextOf(b))

(* ------------------------------------------------------------------ *)
(* _parsePropTag (191-202), _shouldStoreProperty (204-215)             *)
(* ------------------------------------------------------------------ *)
\* the number NaN, set apart from every value parseInt gives four characters
NaN == -1000000

HexChars == DigitChars \cup (65..70) \cup (97..102)
HexDigit(c) == IF c \in DigitChars THEN c - 48 ELSE IF c >= 97 THEN c - 87 ELSE c - 55

\* the value of the run of hexadecimal digits that starts s
RECURSIVE HexRunValue(_, _)
HexRunValue(s, acc) ==
    IF s # <<>> /\ Head(s) \in HexChars THEN HexRunValue(Tail(s), 16 * acc + HexDigit(Head(s)))
    ELSE acc

\* parseInt after the sign and the 0x prefix
ParseDigits(s, sign) ==
    IF s = <<>> \/ Head(s) \notin HexChars THEN NaN ELSE sign * HexRunValue(s, 0)

\* parseInt after the sign: radix 16 lets a 0x or 0X prefix through
ParsePrefixed(s, sign) ==
    IF Len(s) >= 2 /\ s[1] = 48 /\ s[2] \in {120, 88} THEN ParseDigits(SubSeq(s, 3, Len(s)), sign)
    ELSE ParseDigits(s, sign)

ParseSigned(s) ==
    IF s # <<>> /\ s[1] = 45 THEN ParsePrefixed(Tail(s), -1)
    ELSE IF s # <<>> /\ s[1] = 43 THEN ParsePrefixed(Tail(s), 1)
    ELSE ParsePrefixed(s, 1)

\* parseInt(s, 16)
ParseInt16(s) == ParseSigned(TrimStart(s))

\* String.prototype.split('_')
RECURSIVE SplitUnderscore(_)
SplitUnderscoreAt(s, cut) ==
    IF cut = Len(s) THEN <<s>>
    ELSE <<SubSeq(s, 1, cut)>> \o SplitUnderscore(SubSeq(s, cut + 2, Len(s)))

SplitUnderscore(s) == SplitUnderscoreAt(s, RunNotIn({95}, s))

\* lines 199-201
PropTagOf(propTagStr) ==
    [ok |-> TRUE, id |-> ParseInt16(Substring(propTagStr, 0, 4)),
     type |-> ParseInt16(Substring(propTagStr, 4, 8))]

\* lines 195-197
PropTagOfParts(parts) ==
    IF Len(parts) >= 3 THEN PropTagOf(parts[3]) ELSE [ok |-> FALSE, id |-> NaN, type |-> NaN]

\* _parsePropTag(entryName): ok = FALSE for null
ParsePropTag(entryName) ==
    IF Len(entryName) >= 20 THEN PropTagOf(SubstringFrom(entryName, Len(entryName) - 8))
    ELSE PropTagOfParts(SplitUnderscore(entryName))

IsTextType(type) == type = PROP_TYPE_STRING \/ type = PROP_TYPE_STRING8

\* variant that stores a candidate only where none is stored yet
ShouldStoreProperty_KeepFirst(propId, newPropType, rawProps) == propId \notin DOMAIN rawProps

\* every candidate is stored: the last one seen stays
ShouldStoreProperty_Always(propId, newPropType, rawProps) == TRUE

\* _shouldStoreProperty(propId, newPropType, rawProps[propId])
ShouldStoreProperty(propId, newPropType, rawProps) ==
    IF (propId # PROP_ID_BODY /\ propId # PROP_ID_HTML_BODY) \/ propId \notin DOMAIN rawProps
    THEN TRUE
    ELSE ~IsTextType(rawProps[propId].type) /\ IsTextType(newPropType)

(* ------------------------------------------------------------------ *)
(* extractProperties (msgreader.js:527-574)                            *)
(* ------------------------------------------------------------------ *)
\* "__substg1.0_" and "__recip_version1.0_"
StrSubstg == <<95, 95, 115, 117, 98, 115, 116, 103, 49, 46, 48, 95>>
StrRecip ==
    <<95, 95, 114, 101, 99, 105, 112, 95, 118, 101, 114, 115, 105, 111, 110, 49, 46, 48, 95>>

\* obj[key] = value
Put(obj, key, value) == [k \in DOMAIN obj \cup {key} |-> IF k = key THEN value ELSE obj[k]]
EmptyObject == [k \in {} |-> Null]

\* line 534 once the stream of the entry is read
StoreRaw(acc, propTag, stream) ==
    IF ~stream.ok THEN [ok |-> FALSE, rawProps |-> acc.rawProps]
    ELSE [ok |-> TRUE,
          rawProps |-> Put(acc.rawProps, propTag.id, [type |-> propTag.type, data |-> stream.data])]

\* lines 531-534
ScanTagged(b, p, acc, entry, propTag) ==
    IF ~propTag.ok \/ ~ShouldStoreProperty(propTag.id, propTag.type, acc.rawProps) THEN acc
    ELSE StoreRaw(acc, propTag, ReadStream(b, p, entry))

\* lines 530-534 for one entry
ScanEntry(b, p, acc, entry) ==
    IF ~acc.ok \/ IndexOf(entry.name, StrSubstg) # 0 \/ IndexOf(entry.name, StrRecip) > -1
    THEN acc
    ELSE ScanTagged(b, p, acc, entry, ParsePropTag(entry.name))

\* lines 529-535: ok = FALSE when a stream read throws
RECURSIVE ScanEntries(_, _, _, _)
ScanEntries(b, p, acc, entries) ==
    IF entries = <<>> THEN acc
    ELSE ScanEntries(b, p, ScanEntry(b, p, acc, Head(entries)), Tail(entries))

RawPropsOf(b, p) == ScanEntries(b, p, [ok |-> TRUE, rawProps |-> EmptyObject], p.directoryEntries)

\* getVal(id), lines 537-540
GetVal(rawProps, id) ==
    IF id \in DOMAIN rawProps
    THEN ConvertPropertyValue(rawProps[id].data, rawProps[id].type, id)
    ELSE Null

\* lines 542-543 (no text value is a Uint8Array, so lines 545-550 and 554-558 do nothing)
WithHtml(bodyHtml) ==
    IF Truthy(bodyHtml) THEN Put(EmptyObject, PROP_ID_HTML_BODY, bodyHtml) ELSE EmptyObject

\* line 561
WithBody(properties, body) ==
    IF Truthy(body) THEN Put(properties, PROP_ID_BODY, body) ELSE properties

\* lines 552-561
BodyFrom(body, bodyHtml) ==
    IF ~Truthy(body) /\ Truthy(bodyHtml) THEN Str(StripHtml(bodyHtml.s)) ELSE body

BodyProps(bodyHtml, body) == WithBody(WithHtml(bodyHtml), BodyFrom(body, bodyHtml))

\* lines 563-567
WithOthers(properties, rawProps) ==
    [k \in DOMAIN properties \cup (DOMAIN rawProps \ {PROP_ID_BODY, PROP_ID_HTML_BODY}) |->
        IF k \in DOMAIN rawProps \ {PROP_ID_BODY, PROP_ID_HTML_BODY}
        THEN ConvertPropertyValue(rawProps[k].data, rawProps[k].type, k)
        ELSE properties[k]]

\* lines 570-571: `if (!this.properties[id]) this.properties[id] = { value: ... }`
Backfill(properties, id, value) ==
    IF id \notin DOMAIN properties THEN Put(properties, id, value) ELSE properties

\* lines 569-571
WithMime(properties, mimeData) ==
    Backfill(Backfill(properties, PROP_ID_SUBJECT, mimeData.subject), PROP_ID_BODY, mimeData.body)

\* lines 537-571 on the raw properties
PropertiesOf(rawProps, mimeData) ==
    WithMime(WithOthers(BodyProps(GetVal(rawProps, PROP_ID_HTML_BODY), GetVal(rawProps, PROP_ID_BODY)),
                        rawProps), mimeData)

(* ------------------------------------------------------------------ *)
(* extractRecipients on the directory (msgreader.js:632-724)           *)
(* ------------------------------------------------------------------ *)
\* lines 636-638
IsRecipientStorage(entry) == entry.type = 1 /\ IndexOf(entry.name, StrRecip) = 0

\* this.directoryEntries[id] is an entry
HasEntry(entries, id) == id >= 0 /\ id < Len(entries)

\* [id] for a sibling other than -1
Pushed(id) == IF id = -1 THEN <<>> ELSE <<id>>

\* lines 654-663: the stack is popped at its end
RECURSIVE FindChildrenFrom(_, _, _)
FindChildrenFrom(entries, stack, visited) ==
    IF stack = <<>> THEN <<>>
    ELSE IF stack[Len(stack)] = -1 \/ stack[Len(stack)] \in visited
            \/ ~HasEntry(entries, stack[Len(stack)])
    THEN FindChildrenFrom(entries, SubSeq(stack, 1, Len(stack) - 1),
                          visited \cup ({stack[Len(stack)]} \ {-1}))
    ELSE <<entries[stack[Len(stack)] + 1]>>
            \o FindChildrenFrom(entries,
                   SubSeq(stack, 1, Len(stack) - 1)
                       \o Pushed(entries[stack[Len(stack)] + 1].leftSiblingId)
                       \o Pushed(entries[stack[Len(stack)] + 1].rightSiblingId),
                   visited \cup {stack[Len(stack)]})

\* findChildren(parentId), lines 647-665
FindChildren(entries, parentId) ==
    IF ~HasEntry(entries, parentId) \/ entries[parentId + 1].childId = -1 THEN <<>>
    ELSE FindChildrenFrom(entries, <<entries[parentId + 1].childId>>, {})

\* lines 669-673: the tag and the stream of the children of one storage
RECURSIVE ChildStreams(_, _, _)
ChildStream(b, p, propTag, stream, rest) ==
    IF ~rest.ok \/ ~stream.ok THEN [ok |-> FALSE, children |-> <<>>]
    ELSE [ok |-> TRUE,
          children |-> <<[id |-> propTag.id, type |-> propTag.type, data |-> stream.data]>>
                          \o rest.children]

ChildTagged(b, p, child, propTag, rest) ==
    IF ~propTag.ok THEN rest ELSE ChildStream(b, p, propTag, ReadStream(b, p, child), rest)

ChildStreams(b, p, children) ==
    IF children = <<>> THEN [ok |-> TRUE, children |-> <<>>]
    ELSE ChildTagged(b, p, Head(children), ParsePropTag(Head(children).name),
                     ChildStreams(b, p, Tail(children)))

\* the id of the i-th directory entry is i - 1 (line 370)
RECURSIVE StorageChildren(_, _, _)
StorageJoin(one, rest) ==
    [ok |-> one.ok /\ rest.ok, storages |-> <<one.children>> \o rest.storages]

StorageChildren(b, p, i) ==
    IF i > Len(p.directoryEntries) THEN [ok |-> TRUE, storages |-> <<>>]
    ELSE IF ~IsRecipientStorage(p.directoryEntries[i]) THEN StorageChildren(b, p, i + 1)
    ELSE StorageJoin(ChildStreams(b, p, FindChildren(p.directoryEntries, i - 1)),
                     StorageChildren(b, p, i + 1))

\* properties[id].value, or null (lines 691-692)
ValueAt(properties, id) == IF id \in DOMAIN properties THEN properties[id] ELSE Null

\* _extractAddresses calls split on a value that is not a string
SplitThrows(v) == Truthy(v) /\ v.k # "str"

\* lines 691-723 on the recipients collected
RecipientsReconciled(collected, displayTo, displayCc) ==
    IF ~collected.ok \/ SplitThrows(displayTo) \/ SplitThrows(displayCc)
    THEN [ok |-> FALSE, list |-> <<>>]
    ELSE [ok |-> TRUE, list |-> Reconciled(collected.list, displayTo, displayCc)]

RecipientsCollected(found, properties) ==
    IF ~found.ok THEN [ok |-> FALSE, list |-> <<>>]
    ELSE RecipientsReconciled(CollectRecipients(found.storages),
                              ValueAt(properties, PROP_ID_DISPLAY_TO),
                              ValueAt(properties, PROP_ID_DISPLAY_CC))

\* extractRecipients: ok = FALSE when it throws
ExtractRecipients(b, p, properties) ==
    RecipientsCollected(StorageChildren(b, p, 1), properties)

(* ------------------------------------------------------------------ *)
(* extractProperties and the record of parse (msgreader.js:244-253)    *)
(* ------------------------------------------------------------------ *)
\* getFieldValue of subject, body and bodyHTML (lines 726-730), and the record of lines 246-252
RecordOf(properties, recipients) ==
    [subject |-> ValueAt(properties, PROP_ID_SUBJECT),
     body |-> ValueAt(properties, PROP_ID_BODY),
     bodyHTML |-> ValueAt(properties, PROP_ID_HTML_BODY),
     recipients |-> recipients]

Extracted(properties, recipients) ==
    [ok |-> recipients.ok, properties |-> properties, recipients |-> recipients.list]

ExtractedFrom(b, p, properties) == Extracted(properties, ExtractRecipients(b, p, properties))

ExtractedRaw(b, p, raw) ==
    IF ~raw.ok THEN [ok |-> FALSE, properties |-> EmptyObject, recipients |-> <<>>]
    ELSE ExtractedFrom(b, p, PropertiesOf(raw.rawProps, ScanBufferForMimeText(RawTextOf(b))))

\* extractProperties on the parser object p: ok = FALSE when it throws
ExtractProperties(b, p) == ExtractedRaw(b, p, RawPropsOf(b, p))

(* ------------------------------------------------------------------ *)
(* getTextDecoder (msgreader.js:38-48): the module-level decoders the  *)
(* conversions leave behind. TextDecoder.decode without the stream     *)
(* option starts from a fresh state, so the text decoded is a function *)
(* of the bytes alone; DOMParser is undefined in these calls.          *)
(* ------------------------------------------------------------------ *)
\* the streams convertPropertyValue decodes as text, lines 577-584
IsTextStream(stream) ==
    /\ stream.data # <<>>
    /\ stream.id \in {PROP_ID_BODY, PROP_ID_HTML_BODY} \/ IsTextType(stream.type)

\* dataViewToString(view, 'utf-8') goes on to windows-1252, line 142
FallsBack(data) == ~Utf8Fatal(StripBom8(data)).ok

\* the decoders cached once the streams are converted
DecodersAfter(m, streams) ==
    [m EXCEPT !.textDecoderUtf16 = @ \/ \E stream \in streams : IsTextStream(stream),
              !.textDecoderWin1252 =
                  @ \/ \E stream \in streams : IsTextStream(stream) /\ FallsBack(stream.data)]

\* line 375 is reached for a slot of the sector at offset
NamesDecoded(b, offset, slots) ==
    \E i \in 0..(slots - 1) :
        /\ offset + (i + 1) * DIR_ENTRY_SIZE <= Len(b)
        /\ GetUint16(b, offset + i * DIR_ENTRY_SIZE + 64) \in 1..64

\* the decoders cached after one pass of readDirectory
DecodersAfterPass(m, b, p) ==
    [m EXCEPT !.textDecoderUtf16 =
        @ \/ NamesDecoded(b, SectorOffset(HEADER_SIZE, p.sector, p.header.sectorSize),
                          CeilDiv(p.header.sectorSize, DIR_ENTRY_SIZE))]

RawStreams(rawProps) ==
    {[id |-> k, type |-> rawProps[k].type, data |-> rawProps[k].data] : k \in DOMAIN rawProps}

RECURSIVE Flatten(_)
Flatten(lists) == IF lists = <<>> THEN <<>> ELSE Head(lists) \o Flatten(Tail(lists))

\* line 680 throws on the value of this child
ChildThrows(child) ==
    /\ child.id \in {PROP_ID_RECIPIENT_EMAIL_ADDRESS, PROP_ID_RECIPIENT_SMTP_ADDRESS}
    /\ IndexOfThrows(ConvertPropertyValue(child.data, child.type, child.id))

\* the children converted at line 673: those up to the first that makes line 680 throw
ConvertedChildren(children) ==
    {children[i] : i \in {j \in 1..Len(children) : \A k \in 1..(j - 1) : ~ChildThrows(children[k])}}

\* the children of the recipient sub-storages when all their streams can be read
ChildrenRead(found) == IF found.ok THEN ConvertedChildren(Flatten(found.storages)) ELSE {}

\* the decoders cached after extractProperties: nothing is converted when a
\* stream read of the scan throws
DecodersAfterExtract(m, b, p, raw) ==
    IF ~raw.ok THEN m
    ELSE DecodersAfter(m, RawStreams(raw.rawProps) \cup ChildrenRead(StorageChildren(b, p, 1)))

(* ------------------------------------------------------------------ *)
(* State                                                               *)
(* ------------------------------------------------------------------ *)
VARIABLES
    cv,     \* the last convertPropertyValue call: its arguments and its result
    ch,     \* the running _readSectorChain call: arguments, locals, position
    rc,     \* the last extractRecipients call on given recipient sub-storages
    buf,    \* the ArrayBuffer handed to MsgReader.read
    rd,     \* the MsgReaderParser object and the position of the read call
    sh,     \* the last _stripHtml call: its argument, its environment, its result
    ep,     \* the scan of extractProperties over given directory entries
    md,     \* the module-level _textDecoderUtf16, _textDecoderWin1252, _domParser
    hist,   \* the buffers still to be read and the outcomes of the reads made
    qp,     \* the last _decodeQuotedPrintable call: its arguments and its result
    fc,     \* the running findChildren call: directory, stack, visited set, children
    rs      \* the readStream calls of one parser: entries read, _miniStreamData

vars == <<cv, ch, rc, buf, rd, sh, ep, md, hist, qp, fc, rs>>

Idle == [pc |-> "idle"]

\* lines 34-36: the module-level caches before any call
NoDecoders == [textDecoderUtf16 |-> FALSE, textDecoderWin1252 |-> FALSE, domParser |-> FALSE]

\* no read pending, none made
NoReads == [pending |-> <<>>, outcomes |-> <<>>]

(* ------------------------------------------------------------------ *)
(* Specification of convertPropertyValue on drawn property streams     *)
(* ------------------------------------------------------------------ *)
MaxDataLen == 4

\* bytes drawn: NUL, a control byte, space, 'A', 'é' in windows-1252, 0xFF
ConvBytes == {0, 1, 32, 65, 233, 255}

RECURSIVE SeqsUpTo(_, _)
SeqsUpTo(S, n) ==
    IF n = 0 THEN {<<>>}
    ELSE LET shorter == SeqsUpTo(S, n - 1)
         IN shorter \cup {Append(q, x) : q \in {r \in shorter : Len(r) = n - 1}, x \in S}

ConvTypes ==
    {PROP_TYPE_STRING, PROP_TYPE_STRING8, PROP_TYPE_BINARY, PROP_TYPE_INTEGER32,
     PROP_TYPE_BOOLEAN, PROP_TYPE_TIME}

ConvIds == {PROP_ID_SUBJECT, PROP_ID_BODY, PROP_ID_HTML_BODY}

InitConv ==
    /\ \E data \in SeqsUpTo(ConvBytes, MaxDataLen), type \in ConvTypes, propId \in ConvIds :
          cv = [pc |-> "call", data |-> data, type |-> type, propId |-> propId, value |-> Null]
    /\ ch = Idle
    /\ rc = Idle
    /\ buf = <<>>
    /\ rd = Idle
    /\ sh = Idle
    /\ ep = Idle
    /\ md = NoDecoders
    /\ hist = NoReads
    /\ qp = Idle
    /\ fc = Idle
    /\ rs = Idle

ConvertCall ==
    /\ cv.pc = "call"
    /\ cv' = [cv EXCEPT !.pc = "returned",
                        !.value = ConvertPropertyValue(cv.data, cv.type, cv.propId)]
    /\ md' = DecodersAfter(md, {[id |-> cv.propId, type |-> cv.type, data |-> cv.data]})
    /\ UNCHANGED <<ch, rc, buf, rd, sh, ep, hist, qp, fc, rs>>

NextConv == ConvertCall

SpecConv == InitConv /\ [][NextConv]_vars

\* the raw bytes are UTF-16LE text of printable ASCII: every code unit has a zero
\* high byte and a printable ASCII low byte
CleanUtf16Ascii(data) ==
    /\ Len(data) >= 2
    /\ Len(data) % 2 = 0
    /\ \A i \in 1..Len(data) :
          IF i % 2 = 0 THEN data[i] = 0 ELSE data[i] >= 32 /\ data[i] <= 126

\* C10: for both string type tags, raw bytes that are clean UTF-16LE ASCII text
\* resolve to the UTF-16LE decode (the body id then passes it through the
\* stripper and the normalizer, as for any resolved body text).
C10_Utf16Resolved ==
    (/\ cv.pc = "returned"
     /\ cv.type \in {PROP_TYPE_STRING, PROP_TYPE_STRING8}
     /\ CleanUtf16Ascii(cv.data))
    => LET u16 == DataViewToString(cv.data, "utf16le")
       IN cv.value = IF cv.propId = PROP_ID_BODY
                     THEN Str(NormalizeText(StripHtml(u16)))
                     ELSE Str(u16)

\* a STRING8-tagged stream "AA" in UTF-16LE, whose 8-bit decode is the one
\* character "A", resolved to the UTF-16LE decode
C10_Witness ==
    /\ cv.pc = "returned"
    /\ cv.type = PROP_TYPE_STRING8
    /\ cv.propId = PROP_ID_SUBJECT
    /\ cv.data = <<65, 0, 65, 0>>
    /\ DataViewToString(cv.data, "utf-8") = <<65>>
    /\ cv.value = Str(<<65, 65>>)

(* ------------------------------------------------------------------ *)
(* Specification of one _readSectorChain call, one loop pass per step  *)
(* ------------------------------------------------------------------ *)
MaxFatLen == 2
MaxStreamSize == 4
MaxShift == 1

Zeros(n) == [i \in 1..n |-> 0]

\* the container buffers drawn: the 512 header bytes, then 0, 3 or 6 bytes
\* the mini streams drawn: 0, 3 or 6 bytes
ChainSourceLens == {0, 3, 6}
ChainSource(isMini, n) ==
    IF isMini THEN [i \in 1..n |-> 100 + i]
    ELSE Zeros(HEADER_SIZE) \o [i \in 1..n |-> 100 + i]

SectorValues == (0..MaxFatLen) \cup {ENDOFCHAIN, FREESECT}

Tables == {t \in SeqsUpTo(SectorValues, MaxFatLen) : Len(t) >= 1}

InitChain ==
    /\ \E fatArray \in Tables, startSector \in SectorValues, shift \in 0..MaxShift,
          totalSize \in 1..MaxStreamSize, isMini \in BOOLEAN, n \in ChainSourceLens :
          ch = [w |-> ChainStart(startSector, 2 ^ shift, fatArray, isMini, totalSize),
                srcLen |-> n, pc |-> "walk"]
    /\ cv = Idle
    /\ rc = Idle
    /\ buf = <<>>
    /\ rd = Idle
    /\ sh = Idle
    /\ ep = Idle
    /\ md = NoDecoders
    /\ hist = NoReads
    /\ qp = Idle
    /\ fc = Idle
    /\ rs = Idle

ChainLoop ==
    /\ ch.pc = "walk"
    /\ ch.w.pc = "loop"
    /\ ch' = [ch EXCEPT !.w = ChainStep(ch.w, ChainSource(ch.w.isMini, ch.srcLen))]
    /\ UNCHANGED <<cv, rc, buf, rd, sh, ep, md, hist, qp, fc, rs>>

NextChain == ChainLoop

SpecChain == InitChain /\ [][NextChain]_vars

\* every pointer of the walk stays inside the table: the start sector and each
\* table entry is an index of the table or a sentinel (a cyclic table qualifies)
PointersInTable(w) ==
    /\ w.startSector >= 0 /\ w.startSector < Len(w.fatArray)
    /\ \A i \in 1..Len(w.fatArray) :
          IsSentinel(w.fatArray[i]) \/ (w.fatArray[i] >= 0 /\ w.fatArray[i] < Len(w.fatArray))

\* C2: the chain walk copies at most entry.size bytes and makes at most as many
\* loop passes as the allocation table has entries, also when the chain from the
\* start sector is cyclic.
C2_ChainBounded ==
    (ch.pc = "walk" /\ PointersInTable(ch.w)) =>
        /\ Len(ch.w.data) <= ch.w.totalSize
        /\ ch.w.dataOffset <= ch.w.totalSize
        /\ ch.w.iters <= Len(ch.w.fatArray)

(* ------------------------------------------------------------------ *)
(* Specification of extractRecipients on drawn recipient sub-storages  *)
(* and display fields, one pass of the reconciliation loop per step    *)
(* ------------------------------------------------------------------ *)
MaxRecips == 2

\* the bytes of a string stored as UTF-16LE
Utf16Bytes(s) == [i \in 1..(2 * Len(s)) |-> IF i % 2 = 1 THEN s[(i + 1) \div 2] ELSE 0]

\* "a@x.co", "A@X.CO", "b@x.co", "Bob"
AddrA == <<97, 64, 120, 46, 99, 111>>
AddrAUpper == <<65, 64, 88, 46, 67, 79>>
AddrB == <<98, 64, 120, 46, 99, 111>>
NameBob == <<66, 111, 98>>

EmailChild(id, addr) == [id |-> id, type |-> PROP_TYPE_STRING8, data |-> Utf16Bytes(addr)]
TypeChild(code) == [id |-> PROP_ID_RECIPIENT_TYPE, type |-> PROP_TYPE_INTEGER32,
                    data |-> <<code, 0, 0, 0>>]
NameChild(name) == [id |-> PROP_ID_RECIPIENT_DISPLAY_NAME, type |-> PROP_TYPE_STRING8,
                    data |-> Utf16Bytes(name)]

\* the children lists drawn for one recipient sub-storage
StorageChoices ==
    { <<EmailChild(PROP_ID_RECIPIENT_SMTP_ADDRESS, AddrA)>>,
      <<TypeChild(2), EmailChild(PROP_ID_RECIPIENT_EMAIL_ADDRESS, AddrAUpper)>>,
      <<EmailChild(PROP_ID_RECIPIENT_SMTP_ADDRESS, AddrB), TypeChild(3)>>,
      <<EmailChild(PROP_ID_RECIPIENT_SMTP_ADDRESS, AddrA), TypeChild(7)>>,
      <<NameChild(NameBob), TypeChild(0)>>,
      <<TypeChild(1)>>,
      <<EmailChild(PROP_ID_RECIPIENT_SMTP_ADDRESS, AddrA),
        EmailChild(PROP_ID_RECIPIENT_EMAIL_ADDRESS, AddrB)>>,
      <<EmailChild(PROP_ID_RECIPIENT_EMAIL_ADDRESS, AddrB),
        EmailChild(PROP_ID_RECIPIENT_SMTP_ADDRESS, AddrA)>>,
      <<EmailChild(PROP_ID_RECIPIENT_EMAIL_ADDRESS, AddrB),
        EmailChild(PROP_ID_RECIPIENT_SMTP_ADDRESS, NameBob)>>,
      <<[id |-> PROP_ID_RECIPIENT_EMAIL_ADDRESS, type |-> PROP_TYPE_INTEGER32,
         data |-> <<7, 0, 0, 0>>]>> }

\* the display fields drawn: absent, "", "a@x.co", "A@x.co; b@x.co",
\* "a@x.co,a@x.co", "Bob <b@x.co>", "Bob"
DisplayChoices ==
    { Null,
      Str(<<>>),
      Str(AddrA),
      Str(<<65>> \o Tail(AddrA) \o <<59, 32>> \o AddrB),
      Str(AddrA \o <<44>> \o AddrA),
      Str(NameBob \o <<32, 60>> \o AddrB \o <<62>>),
      Str(NameBob) }

InitRecip ==
    /\ \E storages \in SeqsUpTo(StorageChoices, MaxRecips),
          displayTo \in DisplayChoices, displayCc \in DisplayChoices :
          rc = [pc |-> "extract", storages |-> storages,
                displayTo |-> displayTo, displayCc |-> displayCc,
                extracted |-> <<>>, reconciling |-> FALSE,
                st |-> ReconcileStart(<<>>, Null, Null), stored |-> <<>>]
    /\ cv = Idle
    /\ ch = Idle
    /\ buf = <<>>
    /\ rd = Idle
    /\ sh = Idle
    /\ ep = Idle
    /\ md = NoDecoders
    /\ hist = NoReads
    /\ qp = Idle
    /\ fc = Idle
    /\ rs = Idle

\* lines 633-707
RecipExtract ==
    /\ rc.pc = "extract"
    /\ LET c == CollectRecipients(rc.storages)
       IN rc' = IF ~c.ok THEN [rc EXCEPT !.pc = "threw"]
                ELSE IF ReconcileWanted(rc.displayTo, rc.displayCc)
                THEN [rc EXCEPT !.pc = "reconcile", !.extracted = c.list, !.reconciling = TRUE,
                                !.st = ReconcileStart(c.list, rc.displayTo, rc.displayCc)]
                ELSE [rc EXCEPT !.pc = "stored", !.extracted = c.list, !.stored = c.list]
    /\ md' = DecodersAfter(md, ConvertedChildren(Flatten(rc.storages)))
    /\ UNCHANGED <<cv, ch, buf, rd, sh, ep, hist, qp, fc, rs>>

\* lines 709-720, one recipient
RecipReconcile ==
    /\ rc.pc = "reconcile"
    /\ rc.st.i <= Len(rc.st.recipients)
    /\ rc' = [rc EXCEPT !.st = ReconcileStep(rc.st)]
    /\ UNCHANGED <<cv, ch, buf, rd, sh, ep, md, hist, qp, fc, rs>>

\* line 723
RecipStore ==
    /\ rc.pc = "reconcile"
    /\ rc.st.i > Len(rc.st.recipients)
    /\ rc' = [rc EXCEPT !.pc = "stored", !.stored = rc.st.recipients]
    /\ UNCHANGED <<cv, ch, buf, rd, sh, ep, md, hist, qp, fc, rs>>

NextRecip == RecipExtract \/ RecipReconcile \/ RecipStore

SpecRecip == InitRecip /\ [][NextRecip]_vars

\* the lower-cased address of recipient j as read from its sub-storage
KeyOf(j) == ToLowerCase(rc.extracted[j].email)

\* number of entries of a display field whose extracted address is key
Listed(display, key) ==
    LET emails == ExtractAddresses(display)
    IN Cardinality({i \in 1..Len(emails) : emails[i] = key})

\* number of recipients before j that carry the address of j
Earlier(j) == Cardinality({i \in 1..(j - 1) : KeyOf(i) = KeyOf(j)})

\* C8: taken in extraction order, a recipient whose address still has a count
\* in the Cc multiset becomes Cc; else one whose address still has a count in
\* the To multiset becomes To; else it keeps the class read from its sub-storage.
C8_Classification ==
    rc.pc = "stored" =>
        /\ Len(rc.stored) = Len(rc.extracted)
        /\ \A j \in 1..Len(rc.stored) :
              LET c == Listed(rc.displayCc, KeyOf(j))
                  t == Listed(rc.displayTo, KeyOf(j))
                  e == Earlier(j)
              IN rc.stored[j].recipientType =
                    IF e < c THEN Num(RECIPIENT_TYPE_CC)
                    ELSE IF e - c < t THEN Num(RECIPIENT_TYPE_TO)
                    ELSE rc.extracted[j].recipientType

\* one recipient a@x.co with no class property (read as To), display-Cc "a@x.co"
\* and the same address in display-To: it ends as Cc
C8_Witness ==
    /\ rc.pc = "stored"
    /\ rc.storages = <<<<EmailChild(PROP_ID_RECIPIENT_SMTP_ADDRESS, AddrA)>>>>
    /\ rc.displayCc = Str(AddrA)
    /\ rc.displayTo = Str(AddrA)
    /\ rc.extracted[1].recipientType = Num(RECIPIENT_TYPE_TO)
    /\ rc.stored[1].recipientType = Num(RECIPIENT_TYPE_CC)

\* the addresses that take part in a reconciliation
RecipKeys ==
    {KeyOf(j) : j \in 1..Len(rc.extracted)}
        \cup DOMAIN rc.st.toEmailCounts \cup DOMAIN rc.st.ccEmailCounts

\* C9: matching is with multiplicity. No count drops below zero, and when the
\* loop is over, for an address listed c times in Cc and t times in To and
\* carried by k recipients, min(k, c) were taken from the Cc count and
\* min(k - min(k, c), t) from the To count.
C9_Multiplicity ==
    /\ rc.pc \in {"reconcile", "stored"} =>
          /\ \A key \in DOMAIN rc.st.toEmailCounts : rc.st.toEmailCounts[key] >= 0
          /\ \A key \in DOMAIN rc.st.ccEmailCounts : rc.st.ccEmailCounts[key] >= 0
    /\ (rc.pc = "stored" /\ rc.reconciling) =>
          \A key \in RecipKeys :
              LET c == Listed(rc.displayCc, key)
                  t == Listed(rc.displayTo, key)
                  k == Cardinality({j \in 1..Len(rc.extracted) : KeyOf(j) = key})
                  asCc == Min(k, c)
                  asTo == Min(k - asCc, t)
              IN /\ CountAt(rc.st.ccEmailCounts, key) = c - asCc
                 /\ CountAt(rc.st.toEmailCounts, key) = t - asTo
                 /\ key # <<>> =>
                       /\ Cardinality({j \in 1..Len(rc.stored) : KeyOf(j) = key
                              /\ rc.stored[j].recipientType = Num(RECIPIENT_TYPE_CC)}) >= asCc
                       /\ Cardinality({j \in 1..Len(rc.stored) : KeyOf(j) = key
                              /\ rc.stored[j].recipientType = Num(RECIPIENT_TYPE_TO)}) >= asTo

\* two recipients sharing a@x.co, listed once in Cc and once in To: one Cc, one To
C9_Witness ==
    /\ rc.pc = "stored"
    /\ Len(rc.stored) = 2
    /\ KeyOf(1) = AddrA /\ KeyOf(2) = AddrA
    /\ Listed(rc.displayCc, AddrA) = 1
    /\ Listed(rc.displayTo, AddrA) = 1
    /\ rc.stored[1].recipientType = Num(RECIPIENT_TYPE_CC)
    /\ rc.stored[2].recipientType = Num(RECIPIENT_TYPE_TO)
    /\ rc.extracted[2].recipientType # Num(RECIPIENT_TYPE_TO)

\* C7: each recipient of the record has recipientType 1, 2 or 3.
C7_RecipientTypeInRange ==
    rc.pc = "stored" =>
        \A j \in 1..Len(rc.stored) :
            rc.stored[j].recipientType \in
                {Num(RECIPIENT_TYPE_TO), Num(RECIPIENT_TYPE_CC), Num(RECIPIENT_TYPE_BCC)}

(* ------------------------------------------------------------------ *)
(* Specification of MsgReader.read (msgreader.js:733-740) on drawn     *)
(* buffers: text buffers, short buffers that start with the compound   *)
(* file signature, and compound files                                  *)
(* ------------------------------------------------------------------ *)
\* passes of the directory loop followed before the walk is cut off
MaxDirPasses == 13

LE16(n) == <<n % 256, n \div 256>>
LE32(n) == <<n % 256, (n \div 256) % 256, (n \div 65536) % 256, (n \div 16777216) % 256>>
PadTo(b, n) == b \o Zeros(n - Len(b))

\* D0 CF 11 E0 A1 B1 1A E1
SignatureBytes == <<208, 207, 17, 224, 161, 177, 26, 225>>

\* A header for sectors of 128 bytes and mini sectors of 16: one FAT sector,
\* named by the first DIFAT slot, the directory from sector 0, no mini FAT
\* and no DIFAT sector.
HeaderBytes(fatSector) ==
    PadTo(SignatureBytes \o Zeros(22) \o LE16(7) \o LE16(4) \o Zeros(10)
            \o LE32(1) \o LE32(0) \o Zeros(8)
            \o LE32(ENDOFCHAIN) \o LE32(0) \o LE32(ENDOFCHAIN) \o LE32(0)
            \o LE32(fatSector), HEADER_SIZE)

\* a directory entry without siblings or children
DirEntryBytes(name, type, startSector, size) ==
    PadTo(Utf16Bytes(name), 64) \o LE16(2 * Len(name) + 2) \o <<type, 1>>
        \o LE32(-1) \o LE32(-1) \o LE32(-1) \o Zeros(36)
        \o LE32(startSector) \o LE32(size) \o Zeros(4)

\* "Root Entry", "__substg1.0_0037001F", "__substg1.0_1000001F"
NameRoot == <<82, 111, 111, 116, 32, 69, 110, 116, 114, 121>>
NameSubject ==
    <<95, 95, 115, 117, 98, 115, 116, 103, 49, 46, 48, 95, 48, 48, 51, 55, 48, 48, 49, 70>>
NameBody ==
    <<95, 95, 115, 117, 98, 115, 116, 103, 49, 46, 48, 95, 49, 48, 48, 48, 48, 48, 49, 70>>

\* the subject stream drawn: none (an unused slot), empty, "Hi" in UTF-16LE,
\* "Hi" in 8-bit characters, and the one character U+4F60 in UTF-16LE
SubjectChoices ==
    {[type |-> 0, size |-> 0, bytes |-> <<72, 0, 105, 0>>, text |-> <<>>],
     [type |-> 2, size |-> 0, bytes |-> <<72, 0, 105, 0>>, text |-> <<>>],
     [type |-> 2, size |-> 4, bytes |-> <<72, 0, 105, 0>>, text |-> <<72, 105>>],
     [type |-> 2, size |-> 2, bytes |-> <<72, 105>>, text |-> <<72, 105>>],
     [type |-> 2, size |-> 2, bytes |-> <<96, 79>>, text |-> <<20320>>]}

\* the body stream drawn: none, empty, "ok", "a\r\nb", or 4096 bytes declared
\* from a sector past the end of the buffer
BodyChoices ==
    {[type |-> 0, startSector |-> 1, size |-> 0, text |-> <<>>],
     [type |-> 2, startSector |-> 1, size |-> 0, text |-> <<>>],
     [type |-> 2, startSector |-> 1, size |-> 4, text |-> <<111, 107>>],
     [type |-> 2, startSector |-> 1, size |-> 8, text |-> <<97, 13, 10, 98>>],
     [type |-> 2, startSector |-> 9, size |-> MINI_STREAM_CUTOFF, text |-> <<>>]}

\* the FAT successor of the last directory sector: the end of the chain, that
\* sector itself, or the first directory sector
DirEndChoices == {ENDOFCHAIN, 2, 0}

\* the text after the container, or the whole of a text buffer:
\* nothing; "Subject: Yo\n\n\n\nmime"; "Subject: Yo\r\n\r\na\rb";
\* "To: a@x.co\r\nSubject: Yo\r\n\r\n hi "
TextChoices ==
    {<<>>,
     <<83, 117, 98, 106, 101, 99, 116, 58, 32, 89, 111, 10, 10, 10, 10, 109, 105, 109, 101>>,
     <<83, 117, 98, 106, 101, 99, 116, 58, 32, 89, 111, 13, 10, 13, 10, 97, 13, 98>>,
     <<84, 111, 58, 32, 97, 64, 120, 46, 99, 111, 13, 10, 83, 117, 98, 106, 101, 99, 116, 58,
       32, 89, 111, 13, 10, 13, 10, 32, 104, 105, 32>>}

\* Sectors 0..2 hold the directory (root, subject, body), sector 3 the mini
\* stream (mini sector 0 the subject text, mini sector 1 the body text), and
\* sector 4, cut short by the end of the file, the FAT; text may follow.
CompoundBuffer(subject, body, dirEnd, text) ==
    HeaderBytes(4)
        \o DirEntryBytes(NameRoot, 5, 3, 32)
        \o DirEntryBytes(NameSubject, subject.type, 0, subject.size)
        \o DirEntryBytes(NameBody, body.type, body.startSector, body.size)
        \o PadTo(PadTo(subject.bytes, 16) \o Utf16Bytes(body.text), 128)
        \o LE32(1) \o LE32(2) \o LE32(dirEnd) \o LE32(ENDOFCHAIN) \o LE32(-3)
        \o text

\* a directory entry with its sibling and child references
DirEntryBytesWith(name, type, startSector, size, left, right, child) ==
    PadTo(Utf16Bytes(name), 64) \o LE16(2 * Len(name) + 2) \o <<type, 1>>
        \o LE32(left) \o LE32(right) \o LE32(child) \o Zeros(36)
        \o LE32(startSector) \o LE32(size) \o Zeros(4)

\* "__recip_version1.0_#00000000", "__substg1.0_3003001F"
NameRecip ==
    <<95, 95, 114, 101, 99, 105, 112, 95, 118, 101, 114, 115, 105, 111, 110, 49, 46, 48, 95,
      35, 48, 48, 48, 48, 48, 48, 48, 48>>
NameEmail ==
    <<95, 95, 115, 117, 98, 115, 116, 103, 49, 46, 48, 95, 51, 48, 48, 51, 48, 48, 49, 70>>

\* the kind of directory slot 1: unused, or the stream of the subject "Hi"
SlotOneTypes == {0, 2}

\* "__substg1.0_00370102"
NameSubjectBinary ==
    <<95, 95, 115, 117, 98, 115, 116, 103, 49, 46, 48, 95, 48, 48, 51, 55, 48, 49, 48, 50>>

\* the stream under the recipient sub-storage: a subject "Yo", the address
\* "a@x.co", or a subject of binary type
RecipChildChoices ==
    {[name |-> NameSubject, text |-> <<89, 111>>],
     [name |-> NameEmail, text |-> AddrA],
     [name |-> NameSubjectBinary, text |-> <<89, 111>>]}

\* the left sibling of that stream: none, the stream itself, its parent, a
\* slot outside the directory
SiblingChoices == {-1, 3, 2, 9}

\* Sectors 0..3 hold the directory: the root (child: slot 1), slot 1 (right
\* sibling: slot 2), a recipient sub-storage (child: slot 3) and its stream.
\* Sector 4 is the mini stream (mini sector 0 the subject, mini sector 1 the
\* stream of the sub-storage) and sector 5, cut short by the end of the file,
\* the FAT.
TreeBuffer(slotOneType, child, sibling) ==
    HeaderBytes(5)
        \o DirEntryBytesWith(NameRoot, 5, 4, 32, -1, -1, 1)
        \o DirEntryBytesWith(NameSubject, slotOneType, 0, 4, -1, 2, -1)
        \o DirEntryBytesWith(NameRecip, 1, 0, 0, -1, -1, 3)
        \o DirEntryBytesWith(child.name, 2, 1, 2 * Len(child.text), sibling, -1, -1)
        \o PadTo(PadTo(<<72, 0, 105, 0>>, 16) \o Utf16Bytes(child.text), 128)
        \o LE32(1) \o LE32(2) \o LE32(3) \o LE32(ENDOFCHAIN) \o LE32(ENDOFCHAIN) \o LE32(-3)

TreeBuffers ==
    {TreeBuffer(t, c, s) : t \in SlotOneTypes, c \in RecipChildChoices, s \in SiblingChoices}

\* a container whose mini stream (sector 3) holds "Hi" and "ok"
StreamBuffer ==
    CompoundBuffer([type |-> 2, size |-> 4, bytes |-> <<72, 0, 105, 0>>, text |-> <<72, 105>>],
                   [type |-> 2, startSector |-> 1, size |-> 4, text |-> <<111, 107>>],
                   ENDOFCHAIN, <<>>)

\* the header of HeaderBytes with a DIFAT chain of difTotalSectors sectors
\* from difFirstSector
HeaderBytesDif(fatSector, difFirstSector, difTotalSectors) ==
    PadTo(SignatureBytes \o Zeros(22) \o LE16(7) \o LE16(4) \o Zeros(10)
            \o LE32(1) \o LE32(0) \o Zeros(8)
            \o LE32(ENDOFCHAIN) \o LE32(0) \o LE32(difFirstSector) \o LE32(difTotalSectors)
            \o LE32(fatSector), HEADER_SIZE)

\* where the header puts the FAT sector (sector 4, or a sector past the end
\* of the file) and the DIFAT chain (none, one sector past the end of the
\* file, one sector inside it)
FatPlaces ==
    {[fatSector |-> 9, difFirstSector |-> ENDOFCHAIN, difTotalSectors |-> 0],
     [fatSector |-> 4, difFirstSector |-> 9, difTotalSectors |-> 1],
     [fatSector |-> 4, difFirstSector |-> 3, difTotalSectors |-> 1],
     [fatSector |-> 4, difFirstSector |-> ENDOFCHAIN, difTotalSectors |-> 1]}

\* the sectors of StreamBuffer behind such a header
DifBuffers ==
    {HeaderBytesDif(f.fatSector, f.difFirstSector, f.difTotalSectors)
        \o SubSeq(StreamBuffer, HEADER_SIZE + 1, Len(StreamBuffer)) : f \in FatPlaces}

\* "Subject: Hi\r\nTo: a@x.com\r\nContent-Transfer-Encoding: quoted-printable\r\n\r\n"
QpHeaders ==
    <<83, 117, 98, 106, 101, 99, 116, 58, 32, 72, 105, 13, 10, 84, 111, 58, 32, 97, 64, 120,
      46, 99, 111, 109, 13, 10, 67, 111, 110, 116, 101, 110, 116, 45, 84, 114, 97, 110, 115,
      102, 101, 114, 45, 69, 110, 99, 111, 100, 105, 110, 103, 58, 32, 113, 117, 111, 116,
      101, 100, 45, 112, 114, 105, 110, 116, 97, 98, 108, 101, 13, 10, 13, 10>>

\* quoted-printable bodies: "Line1=0D=0ALine2", "so=\r\nft" (a soft line break),
\* "Line1=0ALine2"
QpBodies ==
    {<<76, 105, 110, 101, 49, 61, 48, 68, 61, 48, 65, 76, 105, 110, 101, 50>>,
     <<115, 111, 61, 13, 10, 102, 116>>,
     <<76, 105, 110, 101, 49, 61, 48, 65, 76, 105, 110, 101, 50>>}

\* text messages with a top-level quoted-printable transfer encoding
QpBuffers == {QpHeaders \o body : body \in QpBodies}

\* text messages whose header lines differ in name, case and spacing:
\* "Reply-To: r@x.co\r\nTo: a@x.co\r\nSubject: Yo\r\n\r\nhi",
\* "X-cc: 1\nCC: b@x.co\n\nhi", "Subject:\r\nTo: a@x.co\r\n\r\nhi",
\* "to:a@x.co\nsubject:  Yo \n\nx"
HeaderBuffers ==
    {<<82, 101, 112, 108, 121, 45, 84, 111, 58, 32, 114, 64, 120, 46, 99, 111, 13, 10, 84, 111,
       58, 32, 97, 64, 120, 46, 99, 111, 13, 10, 83, 117, 98, 106, 101, 99, 116, 58, 32, 89,
       111, 13, 10, 13, 10, 104, 105>>,
     <<88, 45, 99, 99, 58, 32, 49, 10, 67, 67, 58, 32, 98, 64, 120, 46, 99, 111, 10, 10, 104,
       105>>,
     <<83, 117, 98, 106, 101, 99, 116, 58, 13, 10, 84, 111, 58, 32, 97, 64, 120, 46, 99, 111,
       13, 10, 13, 10, 104, 105>>,
     <<116, 111, 58, 97, 64, 120, 46, 99, 111, 10, 115, 117, 98, 106, 101, 99, 116, 58, 32, 32,
       89, 111, 32, 10, 10, 120>>}

\* multipart messages with the boundary b:
\* a quoted-printable text/plain part "A=3DB" before a text/html part;
\* a text/plain part whose Content-Transfer-Encoding line stands before its
\* Content-Type line; lines ended by LF alone, a text/plain part "hi" before a
\* quoted-printable text/html part; a top-level quoted-printable transfer
\* encoding over a text/plain part "A=3DB" without one
MultipartBuffers ==
    {<<67, 111, 110, 116, 101, 110, 116, 45, 84, 121, 112, 101, 58, 32, 109, 117, 108, 116, 105,
       112, 97, 114, 116, 47, 97, 108, 116, 101, 114, 110, 97, 116, 105, 118, 101, 59, 32, 98,
       111, 117, 110, 100, 97, 114, 121, 61, 98, 13, 10, 13, 10, 45, 45, 98, 13, 10, 67, 111,
       110, 116, 101, 110, 116, 45, 84, 121, 112, 101, 58, 32, 116, 101, 120, 116, 47, 112, 108,
       97, 105, 110, 59, 32, 99, 104, 97, 114, 115, 101, 116, 61, 117, 116, 102, 45, 56, 13, 10,
       67, 111, 110, 116, 101, 110, 116, 45, 84, 114, 97, 110, 115, 102, 101, 114, 45, 69, 110,
       99, 111, 100, 105, 110, 103, 58, 32, 113, 117, 111, 116, 101, 100, 45, 112, 114, 105,
       110, 116, 97, 98, 108, 101, 13, 10, 13, 10, 65, 61, 51, 68, 66, 13, 10, 45, 45, 98, 13,
       10, 67, 111, 110, 116, 101, 110, 116, 45, 84, 121, 112, 101, 58, 32, 116, 101, 120, 116,
       47, 104, 116, 109, 108, 13, 10, 13, 10, 60, 112, 62, 120, 60, 47, 112, 62, 13, 10, 45,
       45, 98, 45, 45, 13, 10>>,
     <<67, 111, 110, 116, 101, 110, 116, 45, 84, 121, 112, 101, 58, 32, 109, 117, 108, 116, 105,
       112, 97, 114, 116, 47, 109, 105, 120, 101, 100, 59, 32, 98, 111, 117, 110, 100, 97, 114,
       121, 61, 98, 13, 10, 13, 10, 45, 45, 98, 13, 10, 67, 111, 110, 116, 101, 110, 116, 45,
       84, 114, 97, 110, 115, 102, 101, 114, 45, 69, 110, 99, 111, 100, 105, 110, 103, 58, 32,
       113, 117, 111, 116, 101, 100, 45, 112, 114, 105, 110, 116, 97, 98, 108, 101, 13, 10, 67,
       111, 110, 116, 101, 110, 116, 45, 84, 121, 112, 101, 58, 32, 116, 101, 120, 116, 47, 112,
       108, 97, 105, 110, 13, 10, 13, 10, 65, 61, 51, 68, 66, 13, 10, 45, 45, 98, 45, 45, 13,
       10>>,
     <<67, 111, 110, 116, 101, 110, 116, 45, 84, 121, 112, 101, 58, 32, 109, 117, 108, 116, 105,
       112, 97, 114, 116, 47, 109, 105, 120, 101, 100, 59, 32, 98, 111, 117, 110, 100, 97, 114,
       121, 61, 98, 10, 10, 45, 45, 98, 10, 67, 111, 110, 116, 101, 110, 116, 45, 84, 121, 112,
       101, 58, 32, 116, 101, 120, 116, 47, 112, 108, 97, 105, 110, 10, 10, 104, 105, 10, 45,
       45, 98, 10, 67, 111, 110, 116, 101, 110, 116, 45, 84, 121, 112, 101, 58, 32, 116, 101,
       120, 116, 47, 104, 116, 109, 108, 10, 67, 111, 110, 116, 101, 110, 116, 45, 84, 114, 97,
       110, 115, 102, 101, 114, 45, 69, 110, 99, 111, 100, 105, 110, 103, 58, 32, 113, 117, 111,
       116, 101, 100, 45, 112, 114, 105, 110, 116, 97, 98, 108, 101, 10, 10, 60, 112, 62, 61,
       52, 49, 60, 47, 112, 62, 10, 45, 45, 98, 45, 45, 10>>,
     <<67, 111, 110, 116, 101, 110, 116, 45, 84, 121, 112, 101, 58, 32, 109, 117, 108, 116, 105,
       112, 97, 114, 116, 47, 109, 105, 120, 101, 100, 59, 32, 98, 111, 117, 110, 100, 97, 114,
       121, 61, 98, 13, 10, 67, 111, 110, 116, 101, 110, 116, 45, 84, 114, 97, 110, 115, 102,
       101, 114, 45, 69, 110, 99, 111, 100, 105, 110, 103, 58, 32, 113, 117, 111, 116, 101, 100,
       45, 112, 114, 105, 110, 116, 97, 98, 108, 101, 13, 10, 13, 10, 45, 45, 98, 13, 10, 67,
       111, 110, 116, 101, 110, 116, 45, 84, 121, 112, 101, 58, 32, 116, 101, 120, 116, 47, 112,
       108, 97, 105, 110, 13, 10, 13, 10, 65, 61, 51, 68, 66, 13, 10, 45, 45, 98, 45, 45, 13,
       10>>}

\* the buffers shorter than a header: text, the signature alone, the signature and text
ShortBuffers ==
    TextChoices \cup QpBuffers \cup HeaderBuffers \cup MultipartBuffers \cup {SignatureBytes}
        \cup {SignatureBytes \o t : t \in TextChoices}
        \cup {SubSeq(SignatureBytes, 1, 4), SubSeq(SignatureBytes, 1, 7)}

\* a text message longer than a header: "Subject: Yo\r\n\r\n" and 520 times 'a'
LongBuffers ==
    {<<83, 117, 98, 106, 101, 99, 116, 58, 32, 89, 111, 13, 10, 13, 10>>
        \o [i \in 1..520 |-> 97]}

\* new MsgReaderParser(arrayBuffer), lines 239-241
NewParser ==
    [pc |-> "read", header |-> Null, fat |-> <<>>, miniFat |-> <<>>, directoryEntries |-> <<>>,
     properties |-> EmptyObject, recipients |-> <<>>, sector |-> 0, sectorsRead |-> 0,
     record |-> Null]

InitRead ==
    /\ \/ buf \in ShortBuffers \cup LongBuffers \cup TreeBuffers \cup DifBuffers
       \/ \E subject \in SubjectChoices, body \in BodyChoices, dirEnd \in DirEndChoices,
             text \in TextChoices :
             buf = CompoundBuffer(subject, body, dirEnd, text)
    /\ rd = NewParser
    /\ cv = Idle
    /\ ch = Idle
    /\ rc = Idle
    /\ sh = Idle
    /\ ep = Idle
    /\ md = NoDecoders
    /\ hist = NoReads
    /\ qp = Idle
    /\ fc = Idle
    /\ rs = Idle

\* the first four bytes alone decide
PathOf_SignatureOnly(b) ==
    IF Len(b) >= 4 /\ GetUint32(b, 0) = OLE_SIGNATURE THEN "readHeader" ELSE "parseMime"

\* lines 736-738: the path is chosen from the length and the first four bytes
PathOf(b) ==
    IF Len(b) < 8 THEN "parseMime"
    ELSE IF GetUint32(b, 0) = OLE_SIGNATURE THEN "readHeader"
    ELSE "parseMime"

\* MsgReader.read up to the call of parseMime or of parse
Read ==
    /\ rd.pc = "read"
    /\ rd' = [rd EXCEPT !.pc = PathOf(buf)]
    /\ UNCHANGED <<cv, ch, rc, buf, sh, ep, md, hist, qp, fc, rs>>

\* parseMime, lines 255-291
ParseMimeCall ==
    /\ rd.pc = "parseMime"
    /\ rd' = [rd EXCEPT !.pc = "done", !.record = ParseMime(buf)]
    /\ UNCHANGED <<cv, ch, rc, buf, sh, ep, md, hist, qp, fc, rs>>

\* readHeader, lines 293-308: a buffer below 512 bytes makes it throw
ReadHeader ==
    /\ rd.pc = "readHeader"
    /\ rd' = IF Len(buf) < HEADER_SIZE THEN [rd EXCEPT !.pc = "threw"]
             ELSE [rd EXCEPT !.pc = "readFAT", !.header = HeaderOf(buf)]
    /\ UNCHANGED <<cv, ch, rc, buf, sh, ep, md, hist, qp, fc, rs>>

FatRead(p, r) == IF r.ok THEN [p EXCEPT !.pc = "readMiniFAT", !.fat = r.fat]
                 ELSE [p EXCEPT !.pc = "threw"]

\* readFAT, lines 310-337
ReadFATCall ==
    /\ rd.pc = "readFAT"
    /\ rd' = FatRead(rd, ReadFAT(buf, rd.header))
    /\ UNCHANGED <<cv, ch, rc, buf, sh, ep, md, hist, qp, fc, rs>>

\* readMiniFAT, lines 339-353, and the locals of readDirectory, lines 356-357
ReadMiniFATCall ==
    /\ rd.pc = "readMiniFAT"
    /\ rd' = [rd EXCEPT !.pc = "readDirectory",
                        !.miniFat = ReadMiniFAT(buf, rd.header, rd.fat),
                        !.sector = rd.header.directoryFirstSector,
                        !.sectorsRead = 0]
    /\ UNCHANGED <<cv, ch, rc, buf, sh, ep, md, hist, qp, fc, rs>>

\* one pass of the loop of readDirectory, lines 358-369
ReadDirectoryPass ==
    /\ rd.pc = "readDirectory"
    /\ ~IsSentinel(rd.sector)
    /\ rd.sectorsRead < MaxDirPasses
    /\ rd' = DirectoryPass(buf, rd)
    /\ md' = DecodersAfterPass(md, buf, rd)
    /\ UNCHANGED <<cv, ch, rc, buf, sh, ep, hist, qp, fc, rs>>

\* the loop of readDirectory is left, line 370
ReadDirectoryEnd ==
    /\ \/ rd.pc = "readDirectory" /\ IsSentinel(rd.sector)
       \/ rd.pc = "readDirectoryEnd"
    /\ rd' = [rd EXCEPT !.pc = "extractProperties"]
    /\ UNCHANGED <<cv, ch, rc, buf, sh, ep, md, hist, qp, fc, rs>>

PropertiesExtracted(p, r) ==
    IF r.ok THEN [p EXCEPT !.pc = "return", !.properties = r.properties,
                           !.recipients = r.recipients]
    ELSE [p EXCEPT !.pc = "threw"]

\* extractProperties, lines 527-574
ExtractPropertiesCall ==
    /\ rd.pc = "extractProperties"
    /\ rd' = PropertiesExtracted(rd, ExtractProperties(buf, rd))
    /\ md' = DecodersAfterExtract(md, buf, rd, RawPropsOf(buf, rd))
    /\ UNCHANGED <<cv, ch, rc, buf, sh, ep, hist, qp, fc, rs>>

\* the return of parse, lines 246-252
ParseReturn ==
    /\ rd.pc = "return"
    /\ rd' = [rd EXCEPT !.pc = "done", !.record = RecordOf(rd.properties, rd.recipients)]
    /\ UNCHANGED <<cv, ch, rc, buf, sh, ep, md, hist, qp, fc, rs>>

NextRead ==
    \/ Read
    \/ ParseMimeCall
    \/ ReadHeader
    \/ ReadFATCall
    \/ ReadMiniFATCall
    \/ ReadDirectoryPass
    \/ ReadDirectoryEnd
    \/ ExtractPropertiesCall
    \/ ParseReturn

SpecRead == InitRead /\ [][NextRead]_vars

\* C1: a buffer shorter than 512 bytes never enters the compound-file path:
\* readHeader is not run on it, and the read ends with the record of parseMime.
C1_ShortBufferTakesMime ==
    Len(buf) < HEADER_SIZE => rd.pc \in {"read", "parseMime", "done"}

\* C3: the directory walk of readDirectory follows the FAT at most as many
\* times as the FAT has entries, also when the chain from the header's
\* directory first sector is cyclic.
C3_DirectoryWalkBounded ==
    rd.pc \in {"readDirectory", "readDirectoryEnd"} => rd.sectorsRead <= Len(rd.fat)

\* C4: once the header is read, a stream that lies outside the buffer does
\* not make the read throw: the unit is skipped and a record is returned.
C4_NoAbortAfterHeader == ~(rd.pc = "threw" /\ rd.header # Null)

\* the values the directory scan gives, before the backfill of lines 569-571
ScannedSubject(raw) == GetVal(raw.rawProps, PROP_ID_SUBJECT)
ScannedBody(raw) ==
    BodyFrom(GetVal(raw.rawProps, PROP_ID_BODY), GetVal(raw.rawProps, PROP_ID_HTML_BODY))

FieldBackfilled(scanned, returned, fromMime) ==
    IF Truthy(scanned) THEN returned = scanned ELSE returned = fromMime

RecordBackfilled(raw, record, mimeData) ==
    /\ FieldBackfilled(ScannedSubject(raw), record.subject, mimeData.subject)
    /\ FieldBackfilled(ScannedBody(raw), record.body, mimeData.body)

\* C5: on the compound-file path, a subject (a body) that the directory scan
\* leaves absent or empty is returned with the value parseMime finds in the
\* same buffer, and a non-empty scanned value is returned as it is.
C5_BackfillWhenEmpty ==
    (rd.pc = "done" /\ rd.header # Null)
        => RecordBackfilled(RawPropsOf(buf, rd), rd.record,
                            ScanBufferForMimeText(RawTextOf(buf)))

IsNormalized(text) ==
    /\ \A i \in 1..Len(text) : text[i] # CR
    /\ IndexOf(text, <<LF, LF, LF>>) = -1
    /\ Trim(text) = text

\* C6: a body returned by the read, from any path, holds no carriage return,
\* no run of three newlines, and no white space at either end.
C6_BodyNormalized ==
    (rd.pc = "done" /\ rd.record.body # Null) => IsNormalized(rd.record.body.s)

StrHi == <<72, 105>>
AddrAXCom == <<97, 64, 120, 46, 99, 111, 109>>

\* the record the claim gives for a quoted-printable text message
QpRecordAsClaimed(record, body) ==
    /\ record.subject = Str(StrHi)
    /\ Len(record.recipients) = 1
    /\ record.recipients[1].email = AddrAXCom
    /\ record.recipients[1].recipientType = Num(RECIPIENT_TYPE_TO)
    /\ record.body = Str(NormalizeText(DecodeQuotedPrintable(body, StrUtf8)))

\* C11: a text buffer that is not multipart, with the headers Subject: Hi and
\* To: a@x.com and a top-level quoted-printable transfer encoding, is read as
\* the record with subject "Hi", the one To recipient a@x.com, and as body the
\* text after the headers, quoted-printable decoded and then normalized.
C11_QuotedPrintableMime ==
    \A body \in QpBodies :
        (rd.pc = "done" /\ buf = QpHeaders \o body) => QpRecordAsClaimed(rd.record, body)

(* ------------------------------------------------------------------ *)
(* Specification of _stripHtml on drawn markup: a block element with   *)
(* the text A, a block that holds bad(), and what follows it           *)
(* ------------------------------------------------------------------ *)
StrA == <<65>>
StrB == <<66>>
StrBad == <<98, 97, 100, 40, 41>>
\* "B {c}"
StrBWithBraces == <<66, 32, 123, 99, 125>>

\* "<p>A</p>", "<div>A</div>", "A<br>"
HtmlBefore ==
    {<<60, 112, 62, 65, 60, 47, 112, 62>>,
     <<60, 100, 105, 118, 62, 65, 60, 47, 100, 105, 118, 62>>,
     <<65, 60, 98, 114, 62>>}

\* <script>..</script>, <SCRIPT type=x>..</SCRIPT>, <style>..</style>,
\* <head>..</head>, <!--..-->, <script>..</script >, <style>..</style LF >, and
\* a script element that the end of the input closes
HtmlBlocks ==
    {[open |-> <<60, 115, 99, 114, 105, 112, 116, 62>>, close |-> <<60, 47, 115, 99, 114, 105, 112, 116, 62>>, closed |-> TRUE],
     [open |-> <<60, 83, 67, 82, 73, 80, 84, 32, 116, 121, 112, 101, 61, 120, 62>>, close |-> <<60, 47, 83, 67, 82, 73, 80, 84, 62>>, closed |-> TRUE],
     [open |-> <<60, 115, 116, 121, 108, 101, 62>>, close |-> <<60, 47, 115, 116, 121, 108, 101, 62>>, closed |-> TRUE],
     [open |-> <<60, 104, 101, 97, 100, 62>>, close |-> <<60, 47, 104, 101, 97, 100, 62>>, closed |-> TRUE],
     [open |-> <<60, 33, 45, 45>>, close |-> <<45, 45, 62>>, closed |-> TRUE],
     [open |-> <<60, 115, 99, 114, 105, 112, 116, 62>>, close |-> <<60, 47, 115, 99, 114, 105, 112, 116, 32, 62>>, closed |-> TRUE],
     [open |-> <<60, 115, 116, 121, 108, 101, 62>>, close |-> <<60, 47, 115, 116, 121, 108, 101, 10, 62>>, closed |-> TRUE],
     [open |-> <<60, 115, 99, 114, 105, 112, 116, 62>>, close |-> <<>>, closed |-> FALSE]}

\* "<p>B</p>", "<p>B {c}</p>", nothing
HtmlAfter ==
    {[html |-> <<60, 112, 62, 66, 60, 47, 112, 62>>, kept |-> {StrB}],
     [html |-> <<60, 112, 62, 66, 32, 123, 99, 125, 60, 47, 112, 62>>, kept |-> {StrBWithBraces}],
     [html |-> <<>>, kept |-> {}]}

\* the call drawn: the markup, the texts of its block elements outside the
\* block, the content of the block, and whether the platform has DOMParser
StripCallOf(before, block, after, hasDOMParser) ==
    [pc |-> "call",
     html |-> before \o block.open \o StrBad \o block.close
                 \o (IF block.closed THEN after.html ELSE <<>>),
     kept |-> {StrA} \cup (IF block.closed THEN after.kept ELSE {}),
     dropped |-> {StrBad},
     hasDOMParser |-> hasDOMParser,
     result |-> <<>>]

InitHtml ==
    /\ \E before \in HtmlBefore, block \in HtmlBlocks, after \in HtmlAfter,
          hasDOMParser \in BOOLEAN :
          sh = StripCallOf(before, block, after, hasDOMParser)
    /\ md \in {NoDecoders} \cup {[NoDecoders EXCEPT !.domParser = TRUE] : c \in {x \in {sh} : x.hasDOMParser}}
    /\ cv = Idle
    /\ ch = Idle
    /\ rc = Idle
    /\ buf = <<>>
    /\ rd = Idle
    /\ ep = Idle
    /\ hist = NoReads
    /\ qp = Idle
    /\ fc = Idle
    /\ rs = Idle

\* getDOMParser(), lines 50-55: the module-level parser after the call
DomParserAfter(m, hasDOMParser) == [m EXCEPT !.domParser = @ \/ hasDOMParser]

\* _stripHtml(html), lines 88-120
StripHtmlCall ==
    /\ sh.pc = "call"
    /\ sh' = [sh EXCEPT !.pc = "returned",
                        !.result = StripHtmlWith(sh.html, md.domParser \/ sh.hasDOMParser)]
    /\ md' = IF sh.html = <<>> THEN md ELSE DomParserAfter(md, sh.hasDOMParser)
    /\ UNCHANGED <<cv, ch, rc, buf, rd, ep, hist, qp, fc, rs>>

NextHtml == StripHtmlCall

SpecHtml == InitHtml /\ [][NextHtml]_vars

Contains(text, part) == IndexOf(text, part) # -1

\* C12: the text _stripHtml returns holds none of the content of a script,
\* style, head or comment block of its input and holds the text of the block
\* elements outside such blocks, with an HTML parser and without one.
C12_StripHtmlDropsBlocks ==
    sh.pc = "returned" =>
        /\ \A part \in sh.kept : Contains(sh.result, part)
        /\ \A part \in sh.dropped : ~Contains(sh.result, part)

\* a body slot that is not in use
NoBody == [type |-> 0, startSector |-> 1, size |-> 0, text |-> <<>>]

\* a container that holds the subject stream alone: no body stream, a
\* directory chain that ends, and nothing after the last sector
MinimalFile(subject) == CompoundBuffer(subject, NoBody, ENDOFCHAIN, <<>>)

\* C13: a minimal well-formed compound file with one subject entry of text
\* type and a short text stream is read as a record whose subject is the
\* text of that stream.
C13_RoundTrip ==
    \A subject \in SubjectChoices :
        (rd.pc = "done" /\ subject.size > 0 /\ buf = MinimalFile(subject))
            => rd.record.subject = Str(subject.text)

(* ------------------------------------------------------------------ *)
(* Specification of successive calls of MsgReader.read: a buffer is    *)
(* read, then another, then the first again                            *)
(* ------------------------------------------------------------------ *)
\* the container with the subject "Hi" alone; one whose body stream lies
\* outside the buffer; one with the body "a\r\nb" and text behind it; two text
\* messages; the signature alone
ReadBuffers ==
    {MinimalFile([type |-> 2, size |-> 4, bytes |-> <<72, 0, 105, 0>>, text |-> <<72, 105>>]),
     CompoundBuffer([type |-> 2, size |-> 4, bytes |-> <<72, 0, 105, 0>>, text |-> <<72, 105>>],
                    [type |-> 2, startSector |-> 9, size |-> MINI_STREAM_CUTOFF, text |-> <<>>],
                    ENDOFCHAIN, <<>>),
     CompoundBuffer([type |-> 0, size |-> 0, bytes |-> <<72, 0, 105, 0>>, text |-> <<>>],
                    [type |-> 2, startSector |-> 1, size |-> 8, text |-> <<97, 13, 10, 98>>],
                    ENDOFCHAIN,
                    <<83, 117, 98, 106, 101, 99, 116, 58, 32, 89, 111, 10, 10, 10, 10, 109, 105,
                      109, 101>>),
     QpHeaders \o <<115, 111, 61, 13, 10, 102, 116>>,
     <<83, 117, 98, 106, 101, 99, 116, 58, 32, 89, 111, 13, 10, 13, 10, 97, 13, 98>>,
     SignatureBytes}

InitReads ==
    /\ \E first \in ReadBuffers, other \in ReadBuffers :
          /\ buf = first
          /\ hist = [pending |-> <<other, first>>, outcomes |-> <<>>]
          /\ qp = Idle
          /\ fc = Idle
          /\ rs = Idle
    /\ rd = NewParser
    /\ md = NoDecoders
    /\ cv = Idle
    /\ ch = Idle
    /\ rc = Idle
    /\ sh = Idle
    /\ ep = Idle

\* what a call of MsgReader.read gives its caller: the record, or an exception
OutcomeOf(p) == [threw |-> p.pc = "threw", record |-> IF p.pc = "done" THEN p.record ELSE Null]

\* the parser object of the call before is used again
ParserFor_Reused(previous) == [previous EXCEPT !.pc = "read"]

\* line 734, new MsgReaderParser(arrayBuffer): nothing of the parser object of
\* the call before is taken over
ParserFor(previous) == NewParser

\* the read has returned or thrown, and MsgReader.read is called on the next buffer
NextCall ==
    /\ rd.pc \in {"done", "threw"}
    /\ hist.pending # <<>>
    /\ hist' = [pending |-> Tail(hist.pending), outcomes |-> Append(hist.outcomes, OutcomeOf(rd))]
    /\ buf' = Head(hist.pending)
    /\ rd' = ParserFor(rd)
    /\ UNCHANGED <<cv, ch, rc, sh, ep, md, qp, fc, rs>>

NextReads ==
    \/ Read
    \/ ParseMimeCall
    \/ ReadHeader
    \/ ReadFATCall
    \/ ReadMiniFATCall
    \/ ReadDirectoryPass
    \/ ReadDirectoryEnd
    \/ ExtractPropertiesCall
    \/ ParseReturn
    \/ NextCall

SpecReads == InitReads /\ [][NextReads]_vars

\* C14: what a read gives depends on its buffer alone: a buffer read after
\* reads of other buffers gives what it gave when it was read first, whatever
\* tables, properties and module-level decoders the earlier reads left.
C14_NoSharedState ==
    (rd.pc \in {"done", "threw"} /\ hist.pending = <<>> /\ Len(hist.outcomes) = 2)
        => OutcomeOf(rd) = hist.outcomes[1]

\* a container is read for the second time, after a read with another
\* outcome, with both decoders cached, and gives its record again
C14_Witness ==
    /\ rd.pc = "done"
    /\ rd.header # Null
    /\ hist.pending = <<>>
    /\ Len(hist.outcomes) = 2
    /\ hist.outcomes[2] # hist.outcomes[1]
    /\ md.textDecoderUtf16
    /\ rd.record.subject = Str(StrHi)
    /\ OutcomeOf(rd) = hist.outcomes[1]

\* the positions of the compound-file path: parse and what it calls
CompoundPcs ==
    {"readHeader", "readFAT", "readMiniFAT", "readDirectory", "readDirectoryEnd",
     "extractProperties", "return", "threw"}

\* the first four bytes are D0 CF 11 E0
HasMagic(b) == Len(b) >= 4 /\ GetUint32(b, 0) = OLE_SIGNATURE

\* the read is on the compound-file path, or has returned from it
OnCompoundPath == rd.pc \in CompoundPcs \/ (rd.pc = "done" /\ rd.header # Null)

\* C15: the path is fixed by the length and the first four bytes of the
\* buffer: a buffer without the signature is read by parseMime and never
\* throws, and the compound-file path is taken only by a buffer that has the
\* signature and the 8 bytes of line 736.
C15_PathSelectedUpFront ==
    /\ OnCompoundPath => (HasMagic(buf) /\ Len(buf) >= 8)
    /\ ~HasMagic(buf) =>
          /\ rd.pc \in {"read", "parseMime", "done"}
          /\ rd.pc = "done" => rd.record = ParseMime(buf)

\* the first four bytes of the signature alone are read by parseMime
C15_Witness ==
    /\ rd.pc = "done"
    /\ HasMagic(buf)
    /\ Len(buf) < 8
    /\ rd.header = Null
    /\ rd.record = ParseMime(buf)

(* ------------------------------------------------------------------ *)
(* Specification of the scan of extractProperties (msgreader.js:       *)
(* 529-535) over drawn directory entries; the stream of the entry at   *)
(* position i holds the one byte i                                     *)
(* ------------------------------------------------------------------ *)
MaxEntries == 3

\* lines 531-534 for an entry whose stream readStream gives as data
StoreGiven(rawProps, propTag, data) ==
    IF ~propTag.ok \/ ~ShouldStoreProperty(propTag.id, propTag.type, rawProps) THEN rawProps
    ELSE Put(rawProps, propTag.id, [type |-> propTag.type, data |-> data])

\* lines 530-534 for one entry
ScanGiven(rawProps, entry) ==
    IF IndexOf(entry.name, StrSubstg) # 0 \/ IndexOf(entry.name, StrRecip) > -1 THEN rawProps
    ELSE StoreGiven(rawProps, ParsePropTag(entry.name), entry.data)

\* __substg1.0_1000001F, _1000001E, _10000102, _10000003 (the body as text,
\* text, binary, integer), __substg1.0_1013001F, _10130102 (the HTML body as
\* text, binary), __substg1.0_0037001F (the subject), and the malformed
\* __substg1.0_0x37001E, __substg1.0_zz37001F, __substg1.0_0037
ScanNames ==
    {<<95, 95, 115, 117, 98, 115, 116, 103, 49, 46, 48, 95, 49, 48, 48, 48, 48, 48, 49, 70>>,
     <<95, 95, 115, 117, 98, 115, 116, 103, 49, 46, 48, 95, 49, 48, 48, 48, 48, 48, 49, 69>>,
     <<95, 95, 115, 117, 98, 115, 116, 103, 49, 46, 48, 95, 49, 48, 48, 48, 48, 49, 48, 50>>,
     <<95, 95, 115, 117, 98, 115, 116, 103, 49, 46, 48, 95, 49, 48, 48, 48, 48, 48, 48, 51>>,
     <<95, 95, 115, 117, 98, 115, 116, 103, 49, 46, 48, 95, 49, 48, 49, 51, 48, 48, 49, 70>>,
     <<95, 95, 115, 117, 98, 115, 116, 103, 49, 46, 48, 95, 49, 48, 49, 51, 48, 49, 48, 50>>,
     <<95, 95, 115, 117, 98, 115, 116, 103, 49, 46, 48, 95, 48, 48, 51, 55, 48, 48, 49, 70>>,
     <<95, 95, 115, 117, 98, 115, 116, 103, 49, 46, 48, 95, 48, 120, 51, 55, 48, 48, 49, 69>>,
     <<95, 95, 115, 117, 98, 115, 116, 103, 49, 46, 48, 95, 122, 122, 51, 55, 48, 48, 49, 70>>,
     <<95, 95, 115, 117, 98, 115, 116, 103, 49, 46, 48, 95, 48, 48, 51, 55>>}

InitScan ==
    /\ \E names \in SeqsUpTo(ScanNames, MaxEntries) :
          ep = [pc |-> "scan", i |-> 1, rawProps |-> EmptyObject,
                entries |-> [k \in 1..Len(names) |-> [name |-> names[k], data |-> <<k>>]]]
    /\ cv = Idle
    /\ ch = Idle
    /\ rc = Idle
    /\ buf = <<>>
    /\ rd = Idle
    /\ sh = Idle
    /\ md = NoDecoders
    /\ hist = NoReads
    /\ qp = Idle
    /\ fc = Idle
    /\ rs = Idle

\* one call of the function handed to forEach at line 529
ScanEntryStep ==
    /\ ep.pc = "scan"
    /\ ep.i <= Len(ep.entries)
    /\ ep' = [ep EXCEPT !.i = @ + 1, !.rawProps = ScanGiven(@, ep.entries[ep.i])]
    /\ UNCHANGED <<cv, ch, rc, buf, rd, sh, md, hist, qp, fc, rs>>

\* forEach returns, line 535
ScanEnd ==
    /\ ep.pc = "scan"
    /\ ep.i > Len(ep.entries)
    /\ ep' = [ep EXCEPT !.pc = "scanned"]
    /\ UNCHANGED <<cv, ch, rc, buf, rd, sh, md, hist, qp, fc, rs>>

NextScan == ScanEntryStep \/ ScanEnd

SpecScan == InitScan /\ [][NextScan]_vars

\* the entries scanned so far that carry the property id
CandidatesFor(id) ==
    {k \in 1..(ep.i - 1) : /\ ParsePropTag(ep.entries[k].name).ok
                            /\ ParsePropTag(ep.entries[k].name).id = id}

TextCandidatesFor(id) ==
    {k \in CandidatesFor(id) : IsTextType(ParsePropTag(ep.entries[k].name).type)}

\* the candidate the precedence rule keeps
PreferredFor(id) ==
    IF TextCandidatesFor(id) # {} THEN MinOf(TextCandidatesFor(id)) ELSE MinOf(CandidatesFor(id))

\* C16: for the body and the HTML body id, the candidate stored after any
\* number of entries is the first text-typed one seen if one was seen, and
\* else the first one seen.
C16_BodyPrecedence ==
    ep.pc \in {"scan", "scanned"} =>
        \A id \in {PROP_ID_BODY, PROP_ID_HTML_BODY} :
            IF CandidatesFor(id) = {} THEN id \notin DOMAIN ep.rawProps
            ELSE /\ id \in DOMAIN ep.rawProps
                 /\ ep.rawProps[id].data = <<PreferredFor(id)>>
                 /\ ep.rawProps[id].type = ParsePropTag(ep.entries[PreferredFor(id)].name).type

\* a binary body, a text body and another text body were scanned: the second is stored
C16_Witness ==
    /\ ep.pc = "scanned"
    /\ Len(ep.entries) = 3
    /\ CandidatesFor(PROP_ID_BODY) = {1, 2, 3}
    /\ TextCandidatesFor(PROP_ID_BODY) = {2, 3}
    /\ ep.rawProps[PROP_ID_BODY].data = <<2>>

\* the name ends with eight hexadecimal digits after the twelve characters of the prefix
IsTagName(name) ==
    /\ Len(name) >= 20
    /\ \A i \in (Len(name) - 7)..Len(name) : name[i] \in HexChars

\* C18: _parsePropTag gives null for every entry name that does not end with
\* eight hexadecimal digits, and the scan stores nothing for such an entry:
\* every raw property comes from an entry with a well-formed name.
C18_MalformedSkipped ==
    ep.pc \in {"scan", "scanned"} =>
        /\ \A i \in 1..(ep.i - 1) :
              ~IsTagName(ep.entries[i].name) => ~ParsePropTag(ep.entries[i].name).ok
        /\ \A k \in DOMAIN ep.rawProps :
              \E i \in 1..(ep.i - 1) :
                  IsTagName(ep.entries[i].name) /\ ep.rawProps[k].data = <<i>>

\* the address values of the children of one sub-storage that carry the id
\* and hold a string with '@', in the order the children are visited
AddressValues(children, id) ==
    LET hits == SelectSeq(children, LAMBDA c : c.id = id)
    IN SelectSeq([i \in 1..Len(hits) |->
                      ConvertPropertyValue(hits[i].data, hits[i].type, hits[i].id)],
                 HasAtSign)

\* the sub-storage holds an SMTP address and a generic address, both with '@'
HoldsBoth(children) ==
    /\ AddressValues(children, PROP_ID_RECIPIENT_SMTP_ADDRESS) # <<>>
    /\ AddressValues(children, PROP_ID_RECIPIENT_EMAIL_ADDRESS) # <<>>

\* C17: once the sub-storages are read, a recipient whose sub-storage holds
\* both an SMTP address and a generic address with '@' carries the SMTP
\* address, in either order of the two children, and no recipient carries an
\* email without '@'.
C17_SmtpPreferred ==
    rc.pc \in {"reconcile", "stored"} =>
        /\ \A j \in 1..Len(rc.extracted) :
              rc.extracted[j].email = <<>> \/ IndexOf(rc.extracted[j].email, <<64>>) > -1
        /\ Len(rc.extracted) = Len(rc.storages) =>
              \A j \in 1..Len(rc.storages) :
                  HoldsBoth(rc.storages[j]) =>
                      \E i \in 1..Len(AddressValues(rc.storages[j], PROP_ID_RECIPIENT_SMTP_ADDRESS)) :
                          rc.extracted[j].email =
                              AddressValues(rc.storages[j], PROP_ID_RECIPIENT_SMTP_ADDRESS)[i].s

\* C19: a boolean-typed stream that is not empty, under an id that is not a
\* body id, converts to true exactly when one of its bytes, at any position,
\* is not zero.
C19_BooleanAnyByte ==
    (/\ cv.pc = "returned"
     /\ cv.type = PROP_TYPE_BOOLEAN
     /\ cv.propId = PROP_ID_SUBJECT
     /\ cv.data # <<>>)
    => cv.value = Bool(\E i \in 1..Len(cv.data) : cv.data[i] # 0)

\* the 8-bit decode is taken: the tag is PROP_TYPE_STRING8, the 8-bit decode
\* scores printable where the UTF-16LE decode does not, and it is not a
\* decode of fewer than 5 characters beside a longer UTF-16LE decode
U8Claimed(type, u16, u8) ==
    /\ type = PROP_TYPE_STRING8
    /\ IsPrintable(u8) /\ ~IsPrintable(u16)
    /\ ~(Len(u8) < 5 /\ Len(u8) < Len(u16))

TextClaimed(type, u16, u8) == IF U8Claimed(type, u16, u8) THEN u8 ELSE u16

\* C20: for a text-typed or body property the resolved text is the UTF-16LE
\* decode unless the tag is PROP_TYPE_STRING8 and the 8-bit decode scores
\* higher, and a decode of fewer than 5 characters beside a longer UTF-16LE
\* decode is never the one taken.
C20_Utf16UnlessString8 ==
    (/\ cv.pc = "returned"
     /\ cv.data # <<>>
     /\ \/ cv.propId \in {PROP_ID_BODY, PROP_ID_HTML_BODY}
        \/ cv.type \in {PROP_TYPE_STRING, PROP_TYPE_STRING8})
    => cv.value = TextValue(TextClaimed(cv.type, DataViewToString(cv.data, "utf16le"),
                                        DataViewToString(cv.data, "utf-8")), cv.propId)

\* the sector reached from sector by following the table n times, or
\* ENDOFCHAIN when the chain ends before
RECURSIVE ChainSector(_, _, _)
ChainSector(table, sector, n) ==
    IF IsSentinel(sector) THEN ENDOFCHAIN
    ELSE IF n = 0 THEN sector
    ELSE IF AtOrPastEnd(sector, table) THEN ENDOFCHAIN
    ELSE ChainSector(table, table[sector + 1], n - 1)

\* the entry readDirectoryEntry gives for slot r of the directory chain of
\* the container, <<>> when the slot is not kept or not there
SlotEntryIn(b, sector, sectorSize, k) ==
    IF IsSentinel(sector)
        \/ SectorOffset(HEADER_SIZE, sector, sectorSize) + k * DIR_ENTRY_SIZE + DIR_ENTRY_SIZE > Len(b)
    THEN <<>>
    ELSE EntryAt(b, SectorOffset(HEADER_SIZE, sector, sectorSize) + k * DIR_ENTRY_SIZE)

SlotEntry(b, p, r) ==
    SlotEntryIn(b, ChainSector(p.fat, p.header.directoryFirstSector,
                               r \div CeilDiv(p.header.sectorSize, DIR_ENTRY_SIZE)),
                p.header.sectorSize, r % CeilDiv(p.header.sectorSize, DIR_ENTRY_SIZE))

\* the child and sibling references of an entry that name a slot
RefsOf(entry) == {entry.leftSiblingId, entry.rightSiblingId, entry.childId} \ {-1}

\* C21: after readDirectory the id of a kept entry is its place in the list
\* (line 370), and every child or sibling reference r of a kept entry that
\* names a kept directory slot resolves, by id, to the entry read from slot r.
C21_ReferencesResolve ==
    rd.pc = "extractProperties" =>
        \A i \in 1..Len(rd.directoryEntries) :
            \A r \in RefsOf(rd.directoryEntries[i]) :
                (r >= 0 /\ SlotEntry(buf, rd, r) # <<>>) =>
                    /\ HasEntry(rd.directoryEntries, r)
                    /\ <<rd.directoryEntries[r + 1]>> = SlotEntry(buf, rd, r)

\* the positions where a line of text starts with the lower-case `name:`,
\* compared without regard to case
HeaderLines(text, name) ==
    {p \in 0..(Len(text) - 1) : LineStartAt(text, p) /\ MatchesAtCI(text, name, p)}

\* the trimmed rest of the line whose value starts at q
RestOfLine(text, q) == Str(Trim(SubSeq(text, q + 1, LineEnd(text, q))))

\* the trimmed rest of the first line whose header name is name, or null
LineField(text, name, lines) ==
    IF lines = {} THEN Null ELSE RestOfLine(text, MinOf(lines) + Len(name))

FieldsOfLines(text) ==
    [subject |-> LineField(text, StrSubject, HeaderLines(text, StrSubject)),
     to |-> LineField(text, StrTo, HeaderLines(text, StrTo)),
     cc |-> LineField(text, StrCc, HeaderLines(text, StrCc))]

FieldsFound(mimeData) == [subject |-> mimeData.subject, to |-> mimeData.to, cc |-> mimeData.cc]

\* the read went through parseMime alone
OnMimePath == rd.pc = "done" /\ rd.header = Null

\* C22: for a text message, findField gives for Subject, To and Cc the
\* trimmed rest of the first line whose header name is that name, or null
\* when there is none; a line of a header whose name ends with the name
\* (Reply-To: for To, X-cc: for Cc) does not supply the value.
C22_FindFieldFirstLine ==
    (OnMimePath /\ ~HasMagic(buf))
        => FieldsFound(ScanBufferForMimeText(RawTextOf(buf))) = FieldsOfLines(RawTextOf(buf))

\* the whole text after the blank line that ends the headers: four
\* characters after the first CR LF CR LF, or two after the first LF LF when
\* there is no CR LF CR LF
TextAfterBlankLine(rawText, rnrn, nn) ==
    IF rnrn # -1 THEN SubstringFrom(rawText, rnrn + 4) ELSE SubstringFrom(rawText, nn + 2)

WholeBody(rawText) ==
    Str(Decoded(TextAfterBlankLine(rawText, IndexOf(rawText, CRLFCRLF), IndexOf(rawText, LFLF)),
                IsQuotedPrintable(rawText), CharsetOf(rawText)))

\* C23: for a text message that is not multipart and has a blank line after
\* its headers, the body before transfer decoding is the whole text after
\* that blank line, for the separator CR LF CR LF and for LF LF.
C23_WholeBodyAfterBlankLine ==
    (/\ OnMimePath
     /\ ~HasMagic(buf)
     /\ ~IsMultipart(RawTextOf(buf))
     /\ HeaderEndIndex(RawTextOf(buf)) # -1)
    => rd.record.body = WholeBody(RawTextOf(buf))

\* where the part that holds the position p opens: the start of the last
\* line before p that begins with "--", or the start of the text
PartOpens(bodyText, p) ==
    MaxOf({0} \cup {i \in 0..(p - 1) : LineStartAt(bodyText, i) /\ MatchesAt(bodyText, <<45, 45>>, i)})

\* the part decoded by the headers between its opening and its blank line
OwnPartFrom(bodyText, opens, start, startOffset) ==
    PartBody(bodyText, Substring(bodyText, opens, start), start, startOffset)

OwnPartStart(bodyText, opens, rnrn, nn) ==
    IF rnrn # -1 /\ (nn = -1 \/ rnrn < nn) THEN OwnPartFrom(bodyText, opens, rnrn, 4)
    ELSE OwnPartFrom(bodyText, opens, nn, 2)

OwnPlainPart(bodyText, plainTypeIndex) ==
    OwnPartStart(bodyText, PartOpens(bodyText, plainTypeIndex),
                 IndexOfFrom(bodyText, CRLFCRLF, plainTypeIndex),
                 IndexOfFrom(bodyText, LFLF, plainTypeIndex))

\* the first text/plain part of the text after the top-level headers
FirstPlainPart(bodyText) ==
    Str(OwnPlainPart(bodyText,
                     MinOrMinusOne(HeaderValueHits(bodyText, StrContentType, StrTextPlain))))

HasPlainPart(bodyText) ==
    /\ HeaderValueHits(bodyText, StrContentType, StrTextPlain) # {}
    /\ IndexOfFrom(bodyText, LFLF,
                   MinOrMinusOne(HeaderValueHits(bodyText, StrContentType, StrTextPlain))) # -1
       \/ IndexOfFrom(bodyText, CRLFCRLF,
                      MinOrMinusOne(HeaderValueHits(bodyText, StrContentType, StrTextPlain))) # -1

\* the text after the top-level headers, as line 464 takes it
BodyTextOf(rawText) == SubstringFrom(rawText, HeaderEndIndex(rawText) + 4)

\* C24: for a multipart text message with a text/plain part, the body is the
\* content of the first text/plain part, from the blank line after that
\* part's headers to the next line that begins with "--" or to the end,
\* decoded by the transfer encoding and the charset of that part's own
\* headers and of no other headers.
C24_FirstPlainPart ==
    (/\ OnMimePath
     /\ ~HasMagic(buf)
     /\ IsMultipart(RawTextOf(buf))
     /\ HeaderEndIndex(RawTextOf(buf)) # -1
     /\ HasPlainPart(BodyTextOf(RawTextOf(buf))))
    => rd.record.body = FirstPlainPart(BodyTextOf(RawTextOf(buf)))

(* ------------------------------------------------------------------ *)
(* Specification of _decodeQuotedPrintable on drawn strings and        *)
(* charset labels                                                      *)
(* ------------------------------------------------------------------ *)
MaxPieces == 2

\* the pieces a string is drawn from: "=41", "=4a", "=C3=A9", "=c3=a9", a soft
\* line break with CR LF and with LF, "x", "=", "=4", "=G1"
QpPieces ==
    {<<61, 52, 49>>, <<61, 52, 97>>, <<61, 67, 51, 61, 65, 57>>, <<61, 99, 51, 61, 97, 57>>,
     <<61, CR, LF>>, <<61, LF>>, <<120>>, <<61>>, <<61, 52>>, <<61, 71, 49>>}

\* "utf-8", "UTF-8", "us-ascii", "US-ASCII", "iso-8859-1", "x-none"
QpCharsets ==
    {<<117, 116, 102, 45, 56>>, <<85, 84, 70, 45, 56>>, UsAscii,
     <<85, 83, 45, 65, 83, 67, 73, 73>>, <<105, 115, 111, 45, 56, 56, 53, 57, 45, 49>>,
     <<120, 45, 110, 111, 110, 101>>}

InitQp ==
    /\ \E pieces \in SeqsUpTo(QpPieces, MaxPieces), charset \in QpCharsets :
          qp = [pc |-> "call", str |-> Flatten(pieces), charset |-> charset, value |-> <<>>]
    /\ cv = Idle
    /\ ch = Idle
    /\ rc = Idle
    /\ buf = <<>>
    /\ rd = Idle
    /\ sh = Idle
    /\ ep = Idle
    /\ md = NoDecoders
    /\ hist = NoReads
    /\ fc = Idle
    /\ rs = Idle

\* _decodeQuotedPrintable(str, charset); the decoder of line 79 is a new one
DecodeQpCall ==
    /\ qp.pc = "call"
    /\ qp' = [qp EXCEPT !.pc = "returned", !.value = DecodeQuotedPrintable(qp.str, qp.charset)]
    /\ UNCHANGED <<cv, ch, rc, buf, rd, sh, ep, md, hist, fc, rs>>

NextQp == DecodeQpCall

SpecQp == InitQp /\ [][NextQp]_vars

\* every '=' followed by two hexadecimal digits, of either case, replaced by
\* the character with that code
RECURSIVE EscapesReplaced(_)
EscapesReplaced(s) ==
    IF s = <<>> THEN <<>>
    ELSE IF Len(s) >= 3 /\ s[1] = 61 /\ s[2] \in HexChars /\ s[3] \in HexChars
         THEN <<16 * HexDigit(s[2]) + HexDigit(s[3])>> \o EscapesReplaced(SubSeq(s, 4, Len(s)))
    ELSE <<s[1]>> \o EscapesReplaced(Tail(s))

\* C25: _decodeQuotedPrintable removes the soft line breaks, replaces every
\* =XX with two hexadecimal digits by the byte of that value, decodes the
\* bytes by the lower-cased charset, us-ascii as utf-8, and returns the
\* replaced string as it is when the charset cannot be decoded.
C25_QuotedPrintable ==
    qp.pc = "returned" =>
        qp.value = DecodeAs(EscapesReplaced(JoinSoftLines(qp.str)), ToLowerCase(qp.charset))

(* ------------------------------------------------------------------ *)
(* Specification of one findChildren call (msgreader.js:647-665) on    *)
(* drawn directory tables, one pass of its loop per step               *)
(* ------------------------------------------------------------------ *)
MaxTable == 2

\* references drawn: none, the first two slots, a slot outside every table
RefChoices == {-1, 0, 1, 9}

Links == [leftSiblingId : RefChoices, rightSiblingId : RefChoices]

LinkTables == {t \in SeqsUpTo(Links, MaxTable) : Len(t) >= 1}

\* the table with the child reference drawn for its entries; the call reads
\* that of the parent alone
WithChild(t, childId) ==
    [i \in 1..Len(t) |-> [leftSiblingId |-> t[i].leftSiblingId,
                          rightSiblingId |-> t[i].rightSiblingId, childId |-> childId]]

InitChildren ==
    /\ \E t \in LinkTables, childId \in RefChoices, parentId \in 0..1 :
          fc = [pc |-> "call", entries |-> WithChild(t, childId), parentId |-> parentId,
                stack |-> <<>>, visited |-> {}, children |-> <<>>, passes |-> 0]
    /\ cv = Idle
    /\ ch = Idle
    /\ rc = Idle
    /\ buf = <<>>
    /\ rd = Idle
    /\ sh = Idle
    /\ ep = Idle
    /\ md = NoDecoders
    /\ hist = NoReads
    /\ qp = Idle
    /\ rs = Idle

\* lines 648-652
FindChildrenStart(w) ==
    IF ~HasEntry(w.entries, w.parentId) \/ w.entries[w.parentId + 1].childId = -1
    THEN [w EXCEPT !.pc = "returned"]
    ELSE [w EXCEPT !.pc = "loop", !.stack = <<w.entries[w.parentId + 1].childId>>]

\* lines 660-662 for the entry with that id
ChildPushed(w, id, rest) ==
    [w EXCEPT !.stack = rest \o Pushed(w.entries[id + 1].leftSiblingId)
                             \o Pushed(w.entries[id + 1].rightSiblingId),
              !.visited = @ \cup {id},
              !.children = Append(@, id),
              !.passes = @ + 1]

\* the pass without the test of the visited set
FindChildrenPopped_NoVisited(w, id, rest) ==
    IF id = -1 THEN [w EXCEPT !.stack = rest, !.passes = @ + 1]
    ELSE IF ~HasEntry(w.entries, id)
    THEN [w EXCEPT !.stack = rest, !.visited = @ \cup {id}, !.passes = @ + 1]
    ELSE ChildPushed(w, id, rest)

\* lines 655-662 for the id popped
FindChildrenPopped(w, id, rest) ==
    IF id = -1 \/ id \in w.visited THEN [w EXCEPT !.stack = rest, !.passes = @ + 1]
    ELSE IF ~HasEntry(w.entries, id)
    THEN [w EXCEPT !.stack = rest, !.visited = @ \cup {id}, !.passes = @ + 1]
    ELSE ChildPushed(w, id, rest)

\* one pass of the loop of lines 654-663
FindChildrenPass(w) ==
    FindChildrenPopped(w, w.stack[Len(w.stack)], SubSeq(w.stack, 1, Len(w.stack) - 1))

FindChildrenCall ==
    /\ fc.pc = "call"
    /\ fc' = FindChildrenStart(fc)
    /\ UNCHANGED <<cv, ch, rc, buf, rd, sh, ep, md, hist, qp, rs>>

FindChildrenLoop ==
    /\ fc.pc = "loop"
    /\ fc.stack # <<>>
    /\ fc' = FindChildrenPass(fc)
    /\ UNCHANGED <<cv, ch, rc, buf, rd, sh, ep, md, hist, qp, rs>>

\* line 664
FindChildrenReturn ==
    /\ fc.pc = "loop"
    /\ fc.stack = <<>>
    /\ fc' = [fc EXCEPT !.pc = "returned"]
    /\ UNCHANGED <<cv, ch, rc, buf, rd, sh, ep, md, hist, qp, rs>>

NextChildren == FindChildrenCall \/ FindChildrenLoop \/ FindChildrenReturn

SpecChildren == InitChildren /\ [][NextChildren]_vars

\* C26: the loop of findChildren makes at most one pass for the child
\* reference and two for every entry of the table, whatever the references
\* are, and the children collected hold no directory entry twice; what it
\* returns is what the loop collected.
C26_ChildrenTerminate ==
    fc.pc \in {"loop", "returned"} =>
        /\ fc.passes <= 1 + 2 * Len(fc.entries)
        /\ \A i, j \in 1..Len(fc.children) : fc.children[i] = fc.children[j] => i = j
        /\ \A i \in 1..Len(fc.children) : HasEntry(fc.entries, fc.children[i])
        /\ fc.pc = "returned" =>
              /\ fc.stack = <<>>
              /\ [i \in 1..Len(fc.children) |-> fc.entries[fc.children[i] + 1]]
                     = FindChildren(fc.entries, fc.parentId)

\* a call returned from a table whose two entries name each other as siblings
\* and carry a reference outside the table, with both entries collected once
C26_Witness ==
    /\ fc.pc = "returned"
    /\ Len(fc.entries) = 2
    /\ fc.entries[1].leftSiblingId = 1
    /\ fc.entries[2].leftSiblingId = 0
    /\ fc.entries[2].rightSiblingId = 9
    /\ Len(fc.children) = 2

(* ------------------------------------------------------------------ *)
(* Specification of the readStream calls of one parser                 *)
(* (msgreader.js:418-433) on drawn directory entries, one call per     *)
(* step, with the _miniStreamData it keeps between the calls           *)
(* ------------------------------------------------------------------ *)
MaxReads == 3

\* the entries drawn: the root, streams of 4 bytes in mini sectors 0 and 1,
\* an empty stream, a storage, and streams of 4096 bytes from sector 3 and
\* from a sector past the end of the buffer
StreamEntries ==
    {[type |-> 5, startSector |-> 3, size |-> 32],
     [type |-> 2, startSector |-> 0, size |-> 4],
     [type |-> 2, startSector |-> 1, size |-> 4],
     [type |-> 2, startSector |-> 0, size |-> 0],
     [type |-> 1, startSector |-> 0, size |-> 4],
     [type |-> 2, startSector |-> 3, size |-> MINI_STREAM_CUTOFF],
     [type |-> 2, startSector |-> 9, size |-> MINI_STREAM_CUTOFF]}

\* the parser after readHeader, readFAT and readMiniFAT, with that directory
ParserWith(b, h, fat, entries) ==
    [header |-> h, fat |-> fat, miniFat |-> ReadMiniFAT(b, h, fat), directoryEntries |-> entries]

InitStream ==
    /\ buf = StreamBuffer
    /\ \E entries \in SeqsUpTo(StreamEntries, MaxReads) :
          rs = [pc |-> "reading",
                p |-> ParserWith(StreamBuffer, HeaderOf(StreamBuffer),
                                 ReadFAT(StreamBuffer, HeaderOf(StreamBuffer)).fat, entries),
                i |-> 1, miniStreamData |-> [set |-> FALSE, data |-> <<>>],
                materialized |-> 0, last |-> <<>>]
    /\ cv = Idle
    /\ ch = Idle
    /\ rc = Idle
    /\ rd = Idle
    /\ sh = Idle
    /\ ep = Idle
    /\ md = NoDecoders
    /\ hist = NoReads
    /\ qp = Idle
    /\ fc = Idle

\* the call returns data, or throws
StreamReturned(w, r) ==
    IF r.ok THEN [w EXCEPT !.i = @ + 1, !.last = r.data] ELSE [w EXCEPT !.pc = "threw"]

\* line 429
StreamFromMini(w, entry) ==
    StreamReturned(w, ReadSectorChain(entry.startSector, w.p.header.miniSectorSize,
                                      w.p.miniFat, TRUE, entry.size, w.miniStreamData.data))

\* lines 425-427 when _miniStreamData is not set
StreamMaterialized(w, entry, mini) ==
    IF ~mini.ok THEN [w EXCEPT !.pc = "threw", !.materialized = @ + 1]
    ELSE StreamFromMini([w EXCEPT !.miniStreamData = [set |-> TRUE, data |-> mini.data],
                                  !.materialized = @ + 1], entry)

\* the variant that reads the root's content for every small stream
StreamViaRoot_NoCache(b, w, entry, roots) ==
    IF roots = <<>> THEN StreamReturned(w, EmptyStream)
    ELSE StreamMaterialized(w, entry, MiniStreamData(b, w.p.header, w.p.fat, Head(roots)))

\* lines 422-429
StreamViaRoot(b, w, entry, roots) ==
    IF roots = <<>> THEN StreamReturned(w, EmptyStream)
    ELSE IF w.miniStreamData.set THEN StreamFromMini(w, entry)
    ELSE StreamMaterialized(w, entry, MiniStreamData(b, w.p.header, w.p.fat, Head(roots)))

\* readStream(entry) on the parser w.p with the _miniStreamData of w
ReadStreamOn(b, w, entry) ==
    IF entry.size = 0 THEN StreamReturned(w, EmptyStream)
    ELSE IF ULess(entry.size, MINI_STREAM_CUTOFF) /\ entry.type # 5
    THEN StreamViaRoot(b, w, entry, SelectSeq(w.p.directoryEntries, IsRoot))
    ELSE StreamReturned(w, ReadFatStream(b, w.p.header, w.p.fat, entry))

ReadStreamCall ==
    /\ rs.pc = "reading"
    /\ rs.i <= Len(rs.p.directoryEntries)
    /\ rs' = ReadStreamOn(buf, rs, rs.p.directoryEntries[rs.i])
    /\ UNCHANGED <<cv, ch, rc, buf, rd, sh, ep, md, hist, qp, fc>>

ReadStreamsEnd ==
    /\ rs.pc = "reading"
    /\ rs.i > Len(rs.p.directoryEntries)
    /\ rs' = [rs EXCEPT !.pc = "done"]
    /\ UNCHANGED <<cv, ch, rc, buf, rd, sh, ep, md, hist, qp, fc>>

NextStream == ReadStreamCall \/ ReadStreamsEnd

SpecStream == InitStream /\ [][NextStream]_vars

\* the content of the root storage, read through the FAT from the buffer
RootContent(b, p, roots) ==
    IF roots = <<>> THEN <<>>
    ELSE ReadSectorChain(Head(roots).startSector, p.header.sectorSize, p.fat, FALSE,
                         Head(roots).size, b).data

\* the bytes the routing by size and kind gives for an entry
Routed(b, p, entry) ==
    IF entry.size = 0 THEN <<>>
    ELSE IF entry.type # 5 /\ entry.size < MINI_STREAM_CUTOFF
    THEN IF SelectSeq(p.directoryEntries, IsRoot) = <<>> THEN <<>>
         ELSE ReadSectorChain(entry.startSector, p.header.miniSectorSize, p.miniFat, TRUE,
                              entry.size,
                              RootContent(b, p, SelectSeq(p.directoryEntries, IsRoot))).data
    ELSE ReadSectorChain(entry.startSector, p.header.sectorSize, p.fat, FALSE, entry.size,
                         b).data

\* C27: every readStream call gives the bytes its route gives: nothing for
\* size 0, the mini-FAT chain over the root's content for a non-root entry
\* below 4096 bytes, the FAT chain over the buffer from offset 512 for every
\* other entry; and the root's content is read at most once over all the
\* calls of one parser.
C27_StreamRouting ==
    rs.pc \in {"reading", "done"} =>
        /\ rs.materialized <= 1
        /\ rs.i > 1 => rs.last = Routed(buf, rs.p, rs.p.directoryEntries[rs.i - 1])

\* two small streams read after the root, the second from the content kept
C27_Witness ==
    /\ rs.pc = "done"
    /\ Len(rs.p.directoryEntries) = 3
    /\ rs.p.directoryEntries[1].type = 5
    /\ rs.p.directoryEntries[2] = [type |-> 2, startSector |-> 0, size |-> 4]
    /\ rs.p.directoryEntries[3] = [type |-> 2, startSector |-> 1, size |-> 4]
    /\ rs.materialized = 1
    /\ rs.last = <<111, 0, 107, 0>>

\* the FAT sectors named by the header and the DIFAT sectors, had every
\* DIFAT sector that does not lie in the buffer been skipped
FatWithin(b, h) ==
    FatOf(b, h, IF h.difTotalSectors # 0 /\ ~IsSentinel(h.difFirstSector)
                   /\ ~DifReadThrows(b, SectorOffset(HEADER_SIZE, h.difFirstSector, h.sectorSize),
                                     h.sectorSize)
                THEN FatSectorPositions(b, h).positions
                ELSE HeaderFatPositions(b, h.fatSectors))

\* C28: once readHeader has accepted the buffer, readFAT does not throw: a
\* FAT sector or a DIFAT sector that would be read past the end of the
\* buffer is skipped and the table is built from the sectors inside it.
C28_ReadFatNeverFails ==
    (rd.header # Null /\ rd.pc # "readFAT")
        => /\ ReadFAT(buf, rd.header).ok
           /\ rd.fat = FatWithin(buf, rd.header)

\* the recipients list as it stands during and after the loop of lines 709-720
RecipientsNow == IF rc.pc = "stored" THEN rc.stored ELSE rc.st.recipients

\* C29: reconciliation changes nothing but recipientType. While the loop runs
\* and once the list is stored, it has the recipients read from the
\* sub-storages, as many and in the same order, each with the name and the
\* email it was read with; and when both display fields are empty or absent
\* the list stored is the list read, classes included.
C29_OnlyTypeChanges ==
    rc.pc \in {"reconcile", "stored"} =>
        /\ Len(RecipientsNow) = Len(rc.extracted)
        /\ \A j \in 1..Len(rc.extracted) :
              /\ RecipientsNow[j].name = rc.extracted[j].name
              /\ RecipientsNow[j].email = rc.extracted[j].email
              /\ [RecipientsNow[j] EXCEPT !.recipientType = rc.extracted[j].recipientType]
                    = rc.extracted[j]
        /\ (~Truthy(rc.displayTo) /\ ~Truthy(rc.displayCc)) => RecipientsNow = rc.extracted

\* "A@X.CO" read as Cc and listed in display-To as "a@x.co" is stored as To
\* with the address as read, next to a second recipient left as it was
C29_Witness ==
    /\ rc.pc = "stored"
    /\ rc.reconciling
    /\ Len(rc.stored) = 2
    /\ rc.extracted[1].email = AddrAUpper
    /\ rc.stored[1].email = AddrAUpper
    /\ rc.extracted[1].recipientType = Num(RECIPIENT_TYPE_CC)
    /\ rc.stored[1].recipientType = Num(RECIPIENT_TYPE_TO)
    /\ rc.stored[2] = rc.extracted[2]

\* both display fields empty or absent, one of them the empty string: the
\* list read is stored without a pass of the loop
C29_WitnessEmpty ==
    /\ rc.pc = "stored"
    /\ ~rc.reconciling
    /\ rc.displayTo = Str(<<>>)
    /\ rc.displayCc = Null
    /\ Len(rc.stored) = 2
    /\ rc.stored[1].recipientType = Num(RECIPIENT_TYPE_CC)

\* the places, in the directory list, of the entries the scan of lines
\* 529-535 takes as streams of the property id
StreamsWith(id) ==
    {i \in 1..Len(rd.directoryEntries) :
        /\ IndexOf(rd.directoryEntries[i].name, StrSubstg) = 0
        /\ IndexOf(rd.directoryEntries[i].name, StrRecip) = -1
        /\ ParsePropTag(rd.directoryEntries[i].name).ok
        /\ ParsePropTag(rd.directoryEntries[i].name).id = id}

\* the value convertPropertyValue gives for the stream of entry i
ValueOfStream(i, id) ==
    ConvertPropertyValue(ReadStream(buf, rd, rd.directoryEntries[i]).data,
                         ParsePropTag(rd.directoryEntries[i].name).type, id)

\* the entry at place i is a child of a recipient sub-storage
UnderRecipient(i) ==
    \E j \in 1..Len(rd.directoryEntries) :
        /\ IsRecipientStorage(rd.directoryEntries[j])
        /\ rd.directoryEntries[j].childId = i - 1

\* C30: once extractProperties has returned, for every property id but the
\* body and the HTML body that some stream of the directory carries, the
\* property of the message is the value of the last stream with that id in
\* the order of the directory list, wherever the streams sit in the tree.
C30_LastStreamWins ==
    (rd.pc \in {"return", "done"} /\ rd.header # Null) =>
        \A id \in {ParsePropTag(rd.directoryEntries[i].name).id :
                      i \in 1..Len(rd.directoryEntries)} \ {PROP_ID_BODY, PROP_ID_HTML_BODY} :
            StreamsWith(id) # {} =>
                /\ id \in DOMAIN rd.properties
                /\ rd.properties[id] = ValueOfStream(MaxOf(StreamsWith(id)), id)

\* the subject "Hi" at the top of the tree and the subject "Yo" under a
\* recipient sub-storage, later in the list: the subject of the message is "Yo"
C30_Witness ==
    /\ rd.pc = "done"
    /\ rd.header # Null
    /\ Cardinality(StreamsWith(PROP_ID_SUBJECT)) = 2
    /\ UnderRecipient(MaxOf(StreamsWith(PROP_ID_SUBJECT)))
    /\ ValueOfStream(MinOf(StreamsWith(PROP_ID_SUBJECT)), PROP_ID_SUBJECT) = Str(StrHi)
    /\ rd.properties[PROP_ID_SUBJECT] = Str(<<89, 111>>)
    /\ rd.record.subject = Str(<<89, 111>>)

====
